---- MODULE Spec2Model ----
(***************************************************************************)
(* Blockchain storage engine of nausica.ai: the job store, the payment     *)
(* watcher, the FLAC upload orchestrator (cover, UTXO split, chunks,       *)
(* manifest, single container), the FLAC download orchestrator and the     *)
(* script / transaction codecs they use.                                   *)
(*                                                                         *)
(* Bytes are integers 0..255, byte strings are sequences of bytes, an      *)
(* Option is a sequence of length 0 (None) or 1 (Some).                    *)
(***************************************************************************)
EXTENDS Integers, Sequences, FiniteSets, TLC

None == <<>>
Some(x) == <<x>>
IsSome(o) == Len(o) = 1
Get(o) == o[1]

Min(a, b) == IF a <= b THEN a ELSE b

\* `let x = e; F(x)`: e is evaluated once and F sees its value
Bind(e, F(_)) == CHOOSE y \in {F(x) : x \in {e}} : TRUE

RECURSIVE Concat(_)
\* concatenation of a sequence of byte strings (Vec::extend in a loop)
Concat(ss) == IF ss = <<>> THEN <<>> ELSE Head(ss) \o Concat(Tail(ss))

RECURSIVE SumSeq(_)
SumSeq(s) == IF s = <<>> THEN 0 ELSE Head(s) + SumSeq(Tail(s))

Rev(s) == [k \in 1..Len(s) |-> s[Len(s) + 1 - k]]

RECURSIVE LeBytes(_, _)
\* n as `count` little-endian bytes (to_le_bytes of u16 / u32 / i64 / u64)
LeBytes(n, count) ==
    IF count = 0 THEN <<>> ELSE <<n % 256>> \o LeBytes(n \div 256, count - 1)

\* lengths and counts read from the wire saturate here: every value from
\* Huge on is larger than any byte string of the model, and the readers only
\* compare it with lengths
Huge == 1000000

RECURSIVE LeValue(_)
\* from_le_bytes
LeValue(bs) ==
    IF bs = <<>> THEN 0
    ELSE Bind(LeValue(Tail(bs)), LAMBDA hi :
            IF hi >= Huge \div 256 THEN Huge ELSE Head(bs) + 256 * hi)

RECURSIVE DecStr(_)
\* u32::to_string as ASCII bytes
DecStr(n) == IF n < 10 THEN <<48 + n>> ELSE DecStr(n \div 10) \o <<48 + (n % 10)>>

(***************************************************************************)
(* hex (crate hex): encode gives two lowercase hex characters per byte,    *)
(* decode fails on an odd length or on a character that is no hex digit.   *)
(***************************************************************************)
HexChar(n) == IF n < 10 THEN 48 + n ELSE 87 + n

HexVal(c) ==
    IF c >= 48 /\ c <= 57 THEN c - 48
    ELSE IF c >= 97 /\ c <= 102 THEN c - 87
    ELSE IF c >= 65 /\ c <= 70 THEN c - 55
    ELSE -1

HexEncode(bs) ==
    [k \in 1..(2 * Len(bs)) |->
        IF k % 2 = 1 THEN HexChar(bs[(k + 1) \div 2] \div 16)
        ELSE HexChar(bs[k \div 2] % 16)]

HexDecode(cs) ==
    IF Len(cs) % 2 # 0 \/ \E k \in 1..Len(cs) : HexVal(cs[k]) < 0
    THEN None
    ELSE Some([k \in 1..(Len(cs) \div 2) |->
                 16 * HexVal(cs[2 * k - 1]) + HexVal(cs[2 * k])])

(***************************************************************************)
(* Script codec: writer (services/bsv.rs)                                  *)
(***************************************************************************)
\* a writer that keeps the one-byte length form up to 256 bytes
PushDataShortForm(data) ==
    LET len == Len(data) IN
    (IF len <= 75 THEN <<len>>
     ELSE IF len <= 256 THEN <<76, len % 256>>
     ELSE IF len <= 65535 THEN <<77>> \o LeBytes(len, 2)
     ELSE <<78>> \o LeBytes(len, 4))
    \o data

\* BsvService::push_data: the bytes appended to the script for one push
push_data(data) ==
    LET len == Len(data) IN
    (IF len <= 75 THEN <<len>>
     ELSE IF len <= 255 THEN <<76, len % 256>>
     ELSE IF len <= 65535 THEN <<77>> \o LeBytes(len, 2)
     ELSE <<78>> \o LeBytes(len, 4))
    \o data

\* BsvService::write_varint (a value over 0xffffffff, written as 0xff and
\* eight bytes, is beyond the lengths and counts of the model)
write_varint(value) ==
    IF value < 253 THEN <<value>>
    ELSE IF value <= 65535 THEN <<253>> \o LeBytes(value, 2)
    ELSE <<254>> \o LeBytes(value, 4)

ProtoManifest == <<102,108,97,99,115,116,111,114,101,45,109,97,110,105,102,101,115,116>>
ProtoChunk    == <<102,108,97,99,115,116,111,114,101,45,99,104,117,110,107>>
ProtoStore    == <<102,108,97,99,115,116,111,114,101>>
ProtoCover    == <<99,111,118,101,114,97,114,116>>
MimeFlac      == <<97,117,100,105,111,47,102,108,97,99>>
\* "audio.flac"
DefaultFilename == <<97,117,100,105,111,46,102,108,97,99>>

\* BsvService::split_into_chunks (slice::chunks): consecutive slices of
\* max_chunk_size bytes, the last one shorter
split_into_chunks(data, max_chunk_size) ==
    [k \in 1..((Len(data) + max_chunk_size - 1) \div max_chunk_size) |->
        SubSeq(data, (k - 1) * max_chunk_size + 1, Min(k * max_chunk_size, Len(data)))]

\* BsvService::create_flac_store_script
create_flac_store_script(protocol, mime_type, metadata, data_chunks) ==
    <<0, 99>> \o push_data(protocol) \o push_data(mime_type) \o push_data(metadata)
    \o Concat([k \in 1..Len(data_chunks) |-> push_data(data_chunks[k])]) \o <<104>>

\* BsvService::create_op_return_script (legacy): OP_FALSE OP_RETURN <pushes>
create_op_return_script(data_parts) ==
    <<0, 106>> \o Concat([k \in 1..Len(data_parts) |-> push_data(data_parts[k])])

\* BsvService::create_flac_chunk_script
create_flac_chunk_script(chunk_index, data) ==
    <<0, 99>> \o push_data(ProtoChunk) \o push_data(DecStr(chunk_index))
    \o push_data(data) \o <<104>>


(***************************************************************************)
(* Metadata JSON (serde_json).  The text is modelled as '{', then for each  *)
(* member its one-byte key, the length of its value and the value, then    *)
(* '}'.  from_str fails on any text that is not of this shape; looking up  *)
(* a key that is absent gives None (Value::Null).                          *)
(***************************************************************************)
KeySize == 115
KeyChunks == 99
KeyVersion == 118
KeyMime == 109
KeyTitle == 116
KeyArtist == 97
KeyLyrics == 108
KeyCoverTxid == 120
KeyFilename == 102

JsonMember(key, value) == <<key, Len(value)>> \o value

JsonText(members) == <<123>> \o Concat(members) \o <<125>>

RECURSIVE JsonMembersFrom(_, _)
\* the members of the text from position k on, as <<key, value>> pairs, or
\* <<"error">> when the text is malformed
JsonMembersFrom(text, k) ==
    IF k > Len(text) THEN <<"error">>
    ELSE IF text[k] = 125 THEN (IF k = Len(text) THEN <<>> ELSE <<"error">>)
    ELSE IF k + 1 > Len(text) \/ k + 1 + text[k + 1] > Len(text) THEN <<"error">>
    ELSE Bind(k + 2 + text[k + 1], LAMBDA next :
         Bind(JsonMembersFrom(text, next), LAMBDA rest :
            IF rest = <<"error">> THEN rest
            ELSE << <<text[k], SubSeq(text, k + 2, next - 1)>> >> \o rest))

\* serde_json::from_str: Some(members) or None
JsonParse(text) ==
    IF Len(text) < 2 \/ text[1] # 123 THEN None
    ELSE Bind(JsonMembersFrom(text, 2), LAMBDA ms :
            IF ms = <<"error">> THEN None ELSE Some(ms))

\* metadata["key"].as_str(): the first member with that key
JsonGetStr(members, key) ==
    IF \E k \in 1..Len(members) : members[k][1] = key
    THEN Some(members[CHOOSE k \in 1..Len(members) :
                 /\ members[k][1] = key
                 /\ \A m \in 1..(k - 1) : members[m][1] # key][2])
    ELSE None

\* an optional text field is emitted when it is present and not empty
OptMember(key, opt) ==
    IF IsSome(opt) /\ Get(opt) # <<>> THEN JsonMember(key, Get(opt)) ELSE <<>>

\* the manifest's metadata JSON: size, chunks, version, mime, and the
\* optional title, artist, lyrics and cover_txid
ManifestMetadataJson(file_size, n_chunks, title, artist, lyrics, cover_txid) ==
    JsonText(<< JsonMember(KeySize, DecStr(file_size)),
                JsonMember(KeyChunks, DecStr(n_chunks)),
                JsonMember(KeyVersion, <<49, 46, 48>>),
                JsonMember(KeyMime, MimeFlac),
                OptMember(KeyTitle, title),
                OptMember(KeyArtist, artist),
                OptMember(KeyLyrics, lyrics),
                OptMember(KeyCoverTxid, cover_txid) >>)

\* the single container's metadata JSON (main.rs: filename, size, version, chunked)
StoreMetadataJson(filename, file_size) ==
    JsonText(<< JsonMember(KeyFilename, filename),
                JsonMember(KeySize, DecStr(file_size)),
                JsonMember(KeyVersion, <<49, 46, 48>>) >>)

\* BsvService::create_flac_manifest_script
create_flac_manifest_script(filename, file_size, chunk_txids, title, artist, lyrics, cover_txid) ==
    <<0, 99>> \o push_data(ProtoManifest) \o push_data(filename)
    \o push_data(ManifestMetadataJson(file_size, Len(chunk_txids), title, artist, lyrics, cover_txid))
    \o Concat([k \in 1..Len(chunk_txids) |-> push_data(chunk_txids[k])]) \o <<104>>

\* BsvService::create_p2pkh_script: OP_DUP OP_HASH160 <20-byte hash> OP_EQUALVERIFY
\* OP_CHECKSIG; the hash of the address of job `address` is 20 bytes `address`
create_p2pkh_script(address) ==
    <<118, 169, 20>> \o [k \in 1..20 |-> address] \o <<136, 172>>

(***************************************************************************)
(* Txids.  The gateway names a transaction by a digest of its bytes; the   *)
(* state holds the digest as a number, TxidText is the hex text              *)
(* the program holds.                                                      *)
(***************************************************************************)
\* bytes of a txid (32 in the program), scaled down with the payload sizes;
\* the text is twice as long
TxidBytes == 4

RECURSIVE WeightedSum(_, _, _, _, _)
\* the sum of (cs[k] + 1) * (a * k * k + k + 1) over lo..hi modulo m, by halves
WeightedSum(cs, lo, hi, a, m) ==
    IF lo > hi THEN 0
    ELSE IF lo = hi THEN ((cs[lo] + 1) * ((a * lo * lo + lo + 1) % m)) % m
    ELSE Bind((lo + hi) \div 2, LAMBDA mid :
            (WeightedSum(cs, lo, mid, a, m) + WeightedSum(cs, mid + 1, hi, a, m)) % m)

\* the digest of a transaction as it is sent (hex text): two independent
\* sums packed into one number
Digest(cs) ==
    WeightedSum(cs, 1, Len(cs), 1, 32749) * 32768 + WeightedSum(cs, 1, Len(cs), 7, 32719)

\* the text of a txid: leading zeros and the hex digits of the digest
TxidText(id) ==
    [k \in 1..(2 * TxidBytes) |->
        IF 2 * TxidBytes - k >= 8 THEN 48
        ELSE HexChar((id \div (16 ^ (2 * TxidBytes - k))) % 16)]

(***************************************************************************)
(* Transactions (BsvService::create_transaction).  A transaction is        *)
(* [inputs, outputs]: an input is [txid, vout, satoshis], an output is      *)
(* [script, satoshis].                                                     *)
(***************************************************************************)
Input(txid, vout, satoshis) == [txid |-> txid, vout |-> vout, satoshis |-> satoshis]
Output(script, satoshis) == [script |-> script, satoshis |-> satoshis]
Tx(inputs, outputs) == [inputs |-> inputs, outputs |-> outputs]

\* the scriptSig: PUSH(signature || 0x41) PUSH(public key).  The ECDSA bytes
\* are opaque here: a two-byte stand-in ending in the sighash byte, and a
\* one-byte stand-in for the public key.
ScriptSig == push_data(<<48, 65>>) \o push_data(<<2>>)

SerializeInput(in) ==
    Rev(Get(HexDecode(TxidText(in.txid)))) \o LeBytes(in.vout, 4)
    \o write_varint(Len(ScriptSig)) \o ScriptSig \o <<255, 255, 255, 255>>

SerializeOutput(out) ==
    LeBytes(out.satoshis, 8) \o write_varint(Len(out.script)) \o out.script

\* the signed transaction bytes
Serialize(tx) ==
    <<1, 0, 0, 0>> \o write_varint(Len(tx.inputs))
    \o Concat([k \in 1..Len(tx.inputs) |-> SerializeInput(tx.inputs[k])])
    \o write_varint(Len(tx.outputs))
    \o Concat([k \in 1..Len(tx.outputs) |-> SerializeOutput(tx.outputs[k])])
    \o <<0, 0, 0, 0>>

\* BsvService::create_transaction: Err (None) when a txid is not hex, else the
\* hex text of the signed transaction
create_transaction(tx) ==
    IF \E k \in 1..Len(tx.inputs) : HexDecode(TxidText(tx.inputs[k].txid)) = None
    THEN None
    ELSE Some(HexEncode(Serialize(tx)))


(***************************************************************************)
(* Script codec: reader (main.rs).  A reader result is [tag, val] with tag *)
(* "some", "none" (the function returned None) or "panic" (an index or     *)
(* slice out of range: the task aborts).  `p` is the 0-based offset of the *)
(* slice the Rust code passes.                                             *)
(***************************************************************************)
RSome(v) == [tag |-> "some", val |-> v]
RNone == [tag |-> "none", val |-> <<>>]
RPanic == [tag |-> "panic", val |-> <<>>]

\* read_push_data(&script[p..]): Some(<<data, consumed>>) or None
read_push_data(script, p) ==
    LET n == Len(script) - p
        opcode == script[p + 1]
        Take(hdr, len) ==
            IF n < hdr + len THEN None
            ELSE Some(<<SubSeq(script, p + hdr + 1, p + hdr + len), hdr + len>>)
    IN  IF n = 0 THEN None
        ELSE IF opcode <= 75 THEN Take(1, opcode)
        ELSE IF opcode = 76 THEN
            (IF n < 2 THEN None ELSE Take(2, script[p + 2]))
        ELSE IF opcode = 77 THEN
            (IF n < 3 THEN None ELSE Take(3, LeValue(SubSeq(script, p + 2, p + 3))))
        ELSE IF opcode = 78 THEN
            (IF n < 5 THEN None ELSE Take(5, LeValue(SubSeq(script, p + 2, p + 5))))
        ELSE None

RECURSIVE ReadItems(_, _, _)
\* the loop `while i < script.len() { if script[i] == 0x68 { break; } ... }`
\* of the container parsers: Some(items) or None (a push failed to read)
ReadItems(script, i, stop_at_endif) ==
    IF i >= Len(script) THEN Some(<<>>)
    ELSE IF stop_at_endif /\ script[i + 1] = 104 THEN Some(<<>>)
    ELSE Bind(read_push_data(script, i), LAMBDA r :
            IF r = None THEN None
            ELSE Bind(ReadItems(script, i + Get(r)[2], stop_at_endif), LAMBDA rest :
                    IF rest = None THEN None ELSE Some(<<Get(r)[1]>> \o Get(rest))))

\* .filter(|s| !s.is_empty())
NonEmpty(opt) == IF IsSome(opt) /\ Get(opt) # <<>> THEN opt ELSE None

\* parse_flac_manifest_script(&script[p..])
parse_flac_manifest_script(script, p) ==
    Bind(ReadItems(script, p, TRUE), LAMBDA items :
      IF items = None \/ Len(Get(items)) < 3 THEN None
      ELSE IF Get(items)[1] # ProtoManifest THEN None
      ELSE IF Len(Get(items)) = 3 THEN None
      ELSE Bind(JsonParse(Get(items)[3]), LAMBDA md :
             LET it == Get(items)
                 Field(key) ==
                     IF md = None THEN None ELSE NonEmpty(JsonGetStr(Get(md), key))
             IN  Some([filename |-> it[2],
                       chunk_txids |-> SubSeq(it, 4, Len(it)),
                       title |-> Field(KeyTitle),
                       artist |-> Field(KeyArtist),
                       lyrics |-> Field(KeyLyrics),
                       cover_txid |-> Field(KeyCoverTxid)])))

\* parse_flac_chunk_script(&script[p..])
parse_flac_chunk_script(script, p) ==
    Bind(ReadItems(script, p, TRUE), LAMBDA items :
      IF items = None \/ Len(Get(items)) < 3 THEN None
      ELSE IF Get(items)[1] # ProtoChunk THEN None
      ELSE Some(Get(items)[3]))

\* parse_flac_store_script(&script[p..]): Some(<<file_data, filename>>)
parse_flac_store_script(script, p) ==
    Bind(ReadItems(script, p, TRUE), LAMBDA items :
      IF items = None \/ Len(Get(items)) < 4 THEN None
      ELSE IF Get(items)[1] # ProtoStore THEN None
      ELSE Bind(JsonParse(Get(items)[3]), LAMBDA md :
             LET it == Get(items)
                 fname == IF md = None THEN None ELSE JsonGetStr(Get(md), KeyFilename)
             IN  Some(<<Concat(SubSeq(it, 4, Len(it))),
                        IF fname = None THEN DefaultFilename ELSE Get(fname)>>)))

\* read_varint(&data[i..]): val is <<value, size>>
read_varint(data, i) ==
    LET n == Len(data) - i
        first == data[i + 1]
    IN  IF i > Len(data) THEN RPanic
        ELSE IF n = 0 THEN RNone
        ELSE IF first < 253 THEN RSome(<<first, 1>>)
        ELSE IF first = 253 THEN
            (IF n < 3 THEN RNone ELSE RSome(<<LeValue(SubSeq(data, i + 2, i + 3)), 3>>))
        ELSE IF first = 254 THEN
            (IF n < 5 THEN RNone ELSE RSome(<<LeValue(SubSeq(data, i + 2, i + 5)), 5>>))
        ELSE
            (IF n < 9 THEN RNone ELSE RSome(<<LeValue(SubSeq(data, i + 2, i + 9)), 9>>))

RECURSIVE SkipInputs(_, _, _)
\* the input loop of the extract_* functions: val is the offset after the inputs
SkipInputs(tx_bytes, i, count) ==
    IF count = 0 THEN RSome(i)
    ELSE Bind(read_varint(tx_bytes, i + TxidBytes + 4), LAMBDA v :
            IF v.tag # "some" THEN v
            ELSE SkipInputs(tx_bytes, i + TxidBytes + 4 + v.val[2] + v.val[1] + 4,
                            count - 1))

\* what one output script gives in the extract function of `kind`
ParseOutputScript(script, kind) ==
    IF ~(Len(script) > 2 /\ script[1] = 0 /\ script[2] = 99) THEN None
    ELSE IF kind = "manifest" THEN parse_flac_manifest_script(script, 2)
    ELSE IF kind = "chunk" THEN parse_flac_chunk_script(script, 2)
    ELSE parse_flac_store_script(script, 2)

RECURSIVE ScanOutputs(_, _, _, _)
\* the output loop of the extract_* functions: the first output that parses
ScanOutputs(tx_bytes, i, count, kind) ==
    IF count = 0 THEN RNone
    ELSE Bind(read_varint(tx_bytes, i + 8), LAMBDA v :
            IF v.tag # "some" THEN v
            ELSE Bind(i + 8 + v.val[2] + v.val[1], LAMBDA stop :
                   IF stop > Len(tx_bytes) THEN RPanic
                   ELSE Bind(SubSeq(tx_bytes, stop - v.val[1] + 1, stop), LAMBDA script :
                        Bind(ParseOutputScript(script, kind), LAMBDA r :
                           IF r # None THEN RSome(Get(r))
                           ELSE ScanOutputs(tx_bytes, stop, count - 1, kind)))))

\* extract_flac_manifest_from_tx / extract_flac_chunk_from_tx /
\* extract_flac_from_tx, by kind
ExtractFromTx(tx_hex, kind) ==
    Bind(HexDecode(tx_hex), LAMBDA dec :
      IF dec = None THEN RNone
      ELSE Bind(Get(dec), LAMBDA tx_bytes :
           Bind(read_varint(tx_bytes, 4), LAMBDA ic :
             IF ic.tag # "some" THEN ic
             ELSE Bind(SkipInputs(tx_bytes, 4 + ic.val[2], ic.val[1]), LAMBDA after :
                    IF after.tag # "some" THEN after
                    ELSE Bind(read_varint(tx_bytes, after.val), LAMBDA oc :
                           IF oc.tag # "some" THEN oc
                           ELSE ScanOutputs(tx_bytes, after.val + oc.val[2],
                                            oc.val[1], kind))))))

extract_flac_manifest_from_tx(tx_hex) == ExtractFromTx(tx_hex, "manifest")
extract_flac_chunk_from_tx(tx_hex) == ExtractFromTx(tx_hex, "chunk")
extract_flac_from_tx(tx_hex) == ExtractFromTx(tx_hex, "store")

\* parse_op_return_script(&script[p..]): Some(<<file_data, filename>>)
parse_op_return_script(script, p) ==
    Bind(ReadItems(script, p, FALSE), LAMBDA items :
      IF items = None \/ Len(Get(items)) < 4 THEN None
      ELSE Some(<<Concat(SubSeq(Get(items), 4, Len(Get(items)))), Get(items)[3]>>))

RECURSIVE ScanOpReturn(_, _, _)
\* the output loop of extract_op_return_from_tx: the first output that
\* starts with OP_RETURN or OP_FALSE OP_RETURN decides
ScanOpReturn(tx_bytes, i, count) ==
    IF count = 0 THEN RNone
    ELSE Bind(read_varint(tx_bytes, i + 8), LAMBDA v :
            IF v.tag # "some" THEN v
            ELSE Bind(i + 8 + v.val[2] + v.val[1], LAMBDA stop :
                   IF stop > Len(tx_bytes) THEN RPanic
                   ELSE Bind(SubSeq(tx_bytes, stop - v.val[1] + 1, stop), LAMBDA script :
                        IF Len(script) > 2 /\ ((script[1] = 0 /\ script[2] = 106) \/ script[1] = 106)
                        THEN Bind(parse_op_return_script(script, IF script[1] = 0 THEN 2 ELSE 1),
                                  LAMBDA r : IF r # None THEN RSome(Get(r)) ELSE RNone)
                        ELSE ScanOpReturn(tx_bytes, stop, count - 1))))

\* extract_op_return_from_tx
extract_op_return_from_tx(tx_hex) ==
    Bind(HexDecode(tx_hex), LAMBDA dec :
      IF dec = None THEN RNone
      ELSE Bind(Get(dec), LAMBDA tx_bytes :
           Bind(read_varint(tx_bytes, 4), LAMBDA ic :
             IF ic.tag # "some" THEN ic
             ELSE Bind(SkipInputs(tx_bytes, 4 + ic.val[2], ic.val[1]), LAMBDA after :
                    IF after.tag # "some" THEN after
                    ELSE Bind(read_varint(tx_bytes, after.val), LAMBDA oc :
                           IF oc.tag # "some" THEN oc
                           ELSE ScanOpReturn(tx_bytes, after.val + oc.val[2], oc.val[1]))))))


(***************************************************************************)
(* Bounds of the model and program constants                               *)
(***************************************************************************)
\* job slots and tasks ever spawned
MaxJobs == 2
MaxTasks == 2
\* the chunk size of process_flac_upload (1024 * 1024 in the program) and the
\* sub-push size of the single container (100 * 1024), scaled down together
\* with the payload sizes
max_tx_data_size == 2
max_chunk_size == 1
MaxFileSize == 5
\* calls to the outside (gateway, disk) that may fail in one run: of the
\* whole system, and of one upload on its own
MaxFaults == 1
\* gateway calls looked at in one run
MaxCalls == 1
\* the longest prefix an encoding is cut to (and its last byte alone)
MaxCut == 400
MaxFailures == 5
\* BSV_FEE_RATE, satoshis per byte: FeeRateNum / FeeRateDen = 0.002
FeeRateNum == 2
FeeRateDen == 1000
\* dust limit used for change outputs
Dust == 546
\* a retry loop of one attempt more
SixAttempts == 5 + 1
\* attempts of the chunk broadcast loop (for retry in 0..5)
ChunkAttempts == 5

JobIds == 1..MaxJobs
Networks == {"mainnet", "testnet"}

\* (tx_size as f64 * fee_rate).ceil()
Fee(tx_size) == (tx_size * FeeRateNum + FeeRateDen - 1) \div FeeRateDen

\* the bytes of an uploaded file of `len` bytes: they run through the
\* opcodes the readers give a meaning to (OP_ENDIF, OP_FALSE, OP_IF, the
\* PUSHDATA forms, OP_RETURN)
PayloadBytes == <<104, 0, 99, 76, 106, 78, 1>>
Payload(len) == [k \in 1..len |-> PayloadBytes[((k - 1) % Len(PayloadBytes)) + 1]]

\* "a.flac"
Filename == <<97, 46, 102, 108, 97, 99>>
CoverImage == <<137, 80>>
Title == <<84>>

\* progress values are exact rationals <<numerator, denominator>>
Pct(n) == <<n, 1>>
PLeq(a, b) == a[1] * b[2] <= b[1] * a[2]

\* what prepare_flac_upload may receive
UploadInputs ==
    [size : 1..MaxFileSize, cover : {None, Some(CoverImage)},
     title : {None, Some(Title)}, network : Networks]

\* the unspent outputs the indexer may report for the address of job j once
\* it is funded: too little for a split, enough without change, enough with
\* change, and two outputs
Utxo(txid, vout, satoshis) == [txid |-> txid, vout |-> vout, satoshis |-> satoshis]
Funding(j, amounts) ==
    [k \in 1..Len(amounts) |-> Utxo(10 * j + k - 1, k - 1, amounts[k])]
FundingAmounts == {<<30>>, <<100>>, <<600>>, <<20, 600>>}

\* a job row as prepare_flac_upload inserts it
FlacUploadJob(j, input) ==
    [id |-> j, job_type |-> "flac_upload", status |-> "pending_payment",
     progress |-> Pct(0), message |-> "Waiting for payment...",
     manifest_txid |-> None, download_link |-> None,
     filename |-> Some(Filename), file_data |-> Some(Payload(input.size)),
     track_title |-> input.title, artist_name |-> None, lyrics |-> None,
     cover_txid |-> None, cover_data |-> input.cover, network |-> input.network]

\* a job row as start_flac_download inserts it
FlacDownloadJob(j, txid, network) ==
    [id |-> j, job_type |-> "flac_download", status |-> "processing",
     progress |-> Pct(0), message |-> "Starting FLAC download...",
     manifest_txid |-> Some(txid), download_link |-> None,
     filename |-> None, file_data |-> None,
     track_title |-> None, artist_name |-> None, lyrics |-> None,
     cover_txid |-> None, cover_data |-> None, network |-> network]

(***************************************************************************)
(* State                                                                   *)
(***************************************************************************)
VARIABLES
    jobs,       \* the jobs table: job id -> row
    unspent,    \* what the indexer reports for each job's payment address
    tasks,      \* the spawned tasks, in spawn order: position and locals
    chain,      \* the transactions the network accepted: [txid, raw]
    files,      \* ./data/downloads: file name -> bytes
    faults,     \* calls to the outside that may still fail
    calls,      \* the gateway calls looked at one by one: backends and answers
    codec,      \* the codec runs looked at one by one: input, bytes, result
    plan,       \* the funding of one transaction of an upload at full size
    store,      \* the job store's connection mutex and the tasks that use it
    env         \* the run: job and task slots, and what the clients send

vars == <<jobs, unspent, tasks, chain, files, faults, env, calls, codec, plan, store>>

(***************************************************************************)
(* Job store (db/sqlite.rs): each operation is one UPDATE of the row       *)
(***************************************************************************)
update_job_status(job, status, message) ==
    [job EXCEPT !.status = status, !.message = message]

update_job_progress(job, progress, message) ==
    [job EXCEPT !.progress = progress, !.message = message]

\* a Complete that leaves the progress of the row as it was
CompleteKeepingProgress(job, manifest_txid, download_link) ==
    [job EXCEPT !.status = "complete", !.manifest_txid = Some(manifest_txid),
                !.download_link = download_link, !.message = "Complete"]

update_job_complete(job, manifest_txid, download_link) ==
    [job EXCEPT !.status = "complete", !.manifest_txid = Some(manifest_txid),
                !.download_link = download_link, !.message = "Complete",
                !.progress = Pct(100)]

update_job_complete_with_filename(job, manifest_txid, download_link, filename) ==
    [job EXCEPT !.status = "complete", !.manifest_txid = Some(manifest_txid),
                !.download_link = download_link, !.filename = Some(filename),
                !.message = "Complete", !.progress = Pct(100)]

update_job_error(job, message) ==
    [job EXCEPT !.status = "error", !.message = message]

\* an update that leaves the title of the row as it was
MetadataWithoutTitle(job, track_title, artist_name, lyrics) ==
    [job EXCEPT !.artist_name = artist_name, !.lyrics = lyrics]

update_job_metadata(job, track_title, artist_name, lyrics) ==
    [job EXCEPT !.track_title = track_title, !.artist_name = artist_name,
                !.lyrics = lyrics]

update_job_cover_txid(job, cover_txid) ==
    [job EXCEPT !.cover_txid = Some(cover_txid)]

\* get_pending_payment_jobs, in row order
PendingJobs == {j \in DOMAIN jobs : jobs[j].status = "pending_payment"}

RECURSIVE SetToSeq(_)
\* a set of numbers as the increasing sequence
SetToSeq(S) ==
    IF S = {} THEN <<>>
    ELSE LET m == CHOOSE x \in S : \A y \in S : x <= y IN <<m>> \o SetToSeq(S \ {m})

(***************************************************************************)
(* Tasks                                                                   *)
(***************************************************************************)
\* the network a task is given: job.network, "mainnet" when the row has none
NetworkOfJob(job) == job.network

\* a task as spawned: the captured arguments and empty locals
NewTask(job, pc, job_type, network) ==
    [job |-> job, pc |-> pc, job_type |-> job_type, network |-> network,
     utxos |-> <<>>, cover_txid |-> None,
     split_txid |-> None, chunk_txids |-> <<>>, i |-> 0, retry |-> 0,
     tx |-> <<>>, raw_tx |-> None,
     txid |-> None, tx_data |-> <<>>, manifest |-> None, all_data |-> <<>>, saved |-> None,
     log |-> <<>>, progress_log |-> <<>>]

TaskIds == 1..Len(tasks)

\* the task's step writes the job row
WriteJob(t, row) == jobs' = [jobs EXCEPT ![tasks[t].job] = row]

\* the task's step writes a progress value (update_job_progress) and moves on
Progress(t, task, progress, message, pc) ==
    /\ WriteJob(t, update_job_progress(jobs[task.job], progress, message))
    /\ tasks' = [tasks EXCEPT ![t] =
            [task EXCEPT !.pc = pc,
                         !.progress_log = Append(task.progress_log, progress)]]

\* a failure that is written but does not end the task
FailAndGoOn(t, task, message) ==
    /\ WriteJob(t, update_job_error(jobs[task.job], message))
    /\ tasks' = [tasks EXCEPT ![t] = task]

\* the task's step writes Failed (update_job_error) and returns
Fail(t, task, message) ==
    /\ WriteJob(t, update_job_error(jobs[task.job], message))
    /\ tasks' = [tasks EXCEPT ![t] = [task EXCEPT !.pc = "done"]]

\* the task aborts (a panic unwinds it): nothing is written
Panic(t, task) ==
    /\ tasks' = [tasks EXCEPT ![t] = [task EXCEPT !.pc = "panicked"]]
    /\ UNCHANGED jobs


(***************************************************************************)
(* Chain gateway (services/bitails.rs, and the testnet calls of main.rs)   *)
(***************************************************************************)
\* a call to the outside (gateway, disk) returns Ok or Err; the faults of a
\* run are counted down
GatewayAnswers(ok) ==
    IF ok THEN UNCHANGED faults
    ELSE faults > 0 /\ faults' = faults - 1

\* broadcast of the hex text: the txid the gateway answers on success
BroadcastTxid(raw_tx) == Digest(raw_tx)

\* the network keeps an accepted transaction under its txid
Accept(ok, txid, raw_tx, network) ==
    chain' = IF ok
             THEN chain \cup {[txid |-> txid, raw |-> raw_tx, network |-> network]}
             ELSE chain

\* download_tx_raw / fetch_tx_raw for the txid text on a network: Some(hex)
\* when that network holds the transaction
FetchRaw(txid_text, network) ==
    LET held == {c \in chain : TxidText(c.txid) = txid_text /\ c.network = network}
    IN  IF held # {} THEN Some((CHOOSE c \in held : TRUE).raw) ELSE None

\* one line of a task's broadcast log: the transaction the task built last
LogEntry(task, kind, index, wait, ok, txid) ==
    [kind |-> kind, index |-> index, retry |-> task.retry, wait |-> wait, ok |-> ok,
     network |-> task.network, tx |-> task.tx,
     txid |-> IF ok THEN Some(txid) ELSE None]

\* the task keeps the transaction it built and its hex text
Built(task, tx) == [task EXCEPT !.tx = tx, !.raw_tx = create_transaction(tx)]

(***************************************************************************)
(* Funding planner (services/bsv.rs)                                       *)
(***************************************************************************)
\* BsvService::calculate_chunk_output_satoshis
calculate_chunk_output_satoshis(chunk_size) == Fee(200 + chunk_size) + 10

\* BsvService::create_split_transaction: Err (None) on insufficient funds,
\* else the transaction: num_outputs funding outputs, then the change
create_split_transaction(input_txid, input_vout, input_satoshis, address, num_outputs, satoshis_per_output) ==
    LET total_output == satoshis_per_output * num_outputs
        fee == Fee(10 + 148 + 34 * num_outputs)
        change == input_satoshis - total_output - fee
        funding == [k \in 1..num_outputs |->
                       Output(create_p2pkh_script(address), satoshis_per_output)]
    IN  IF input_satoshis < total_output + fee THEN None
        ELSE Some(Tx(<<Input(input_txid, input_vout, input_satoshis)>>,
                     IF change > Dust
                     THEN Append(funding, Output(create_p2pkh_script(address), change))
                     ELSE funding))

(***************************************************************************)
(* Upload orchestrator (main.rs, process_flac_upload): what each step      *)
(* builds from the job row and the task's locals                           *)
(***************************************************************************)
\* the payment address of job j stands for its key pair
AddressOf(j) == j

\* BsvService::calculate_upload_cost
calculate_upload_cost(data_size) ==
    IF Fee(150 + data_size) + 1 > Dust THEN Fee(150 + data_size) + 1 ELSE Dust

\* BsvService::calculate_multi_chunk_cost, the total
calculate_multi_chunk_cost(file_size, chunk_size) ==
    LET num_outputs == (file_size + chunk_size - 1) \div chunk_size + 1
    IN  calculate_chunk_output_satoshis(chunk_size) * num_outputs
        + Fee(10 + 148 + 34 * num_outputs)

\* required_satoshis of prepare_flac_upload: (total as f64 * 1.2).ceil() for
\* a file above the chunk size, calculate_upload_cost below
RequiredSatoshis(job) ==
    LET file_size == Len(Get(job.file_data))
    IN  IF file_size > max_tx_data_size
        THEN (calculate_multi_chunk_cost(file_size, max_tx_data_size) * 12 + 9) \div 10
        ELSE calculate_upload_cost(file_size)

\* a threshold that already chunks a payload of exactly the limit
ChunkAtLimit(job) == Len(Get(job.file_data)) >= max_tx_data_size

\* needs_chunking
NeedsChunking(job) == Len(Get(job.file_data)) > max_tx_data_size

\* the chunks of the file (the while loop over offset)
FileChunks(file_data) ==
    [k \in 1..((Len(file_data) + max_tx_data_size - 1) \div max_tx_data_size) |->
        SubSeq(file_data, (k - 1) * max_tx_data_size + 1,
               Min(k * max_tx_data_size, Len(file_data)))]

TotalInput(utxos) == SumSeq([k \in 1..Len(utxos) |-> utxos[k].satoshis])

\* the cover script: OP_FALSE OP_IF "coverart" <image pushes> OP_ENDIF
create_cover_image_script(cover_bytes) ==
    <<0, 99>> \o push_data(ProtoCover)
    \o Concat([k \in 1..Len(split_into_chunks(cover_bytes, max_chunk_size)) |->
                 push_data(split_into_chunks(cover_bytes, max_chunk_size)[k])])
    \o <<104>>

\* change_amount of the cover transaction
CoverChange(job, cover_utxo) ==
    cover_utxo.satoshis
    - Fee(150 + Len(create_cover_image_script(Get(job.cover_data)))) - 1

\* the cover transaction: the first UTXO in, the cover script and the change out
CoverTx(job, cover_utxo) ==
    Tx(<<Input(cover_utxo.txid, cover_utxo.vout, cover_utxo.satoshis)>>,
       <<Output(create_cover_image_script(Get(job.cover_data)), 1)>>
       \o (IF CoverChange(job, cover_utxo) > Dust
           THEN <<Output(create_p2pkh_script(AddressOf(job.id)),
                         CoverChange(job, cover_utxo))>>
           ELSE <<>>))


\* the utxos after the cover step: the first one is taken out, and the
\* change (vout 1) goes to the front when the broadcast succeeded
UtxosAfterCover(job, utxos, ok, cover_txid) ==
    IF ok /\ CoverChange(job, Head(utxos)) > Dust
    THEN <<Utxo(cover_txid, 1, CoverChange(job, Head(utxos)))>> \o Tail(utxos)
    ELSE Tail(utxos)

\* num_outputs and satoshis_per_output of the split
TotalChunks(job) == Len(FileChunks(Get(job.file_data)))
\* a split that funds the chunks and forgets the manifest
ChunkOutputsOnly(job) == TotalChunks(job)
NumOutputs(job) == TotalChunks(job) + 1
SatoshisPerOutput == calculate_chunk_output_satoshis(max_tx_data_size)

\* the split transaction: the first UTXO's outpoint, the sum of all UTXOs
SplitTx(job, utxos) ==
    create_split_transaction(utxos[1].txid, utxos[1].vout, TotalInput(utxos),
                             AddressOf(job.id), NumOutputs(job), SatoshisPerOutput)

\* a chunk input that is one output off
ChunkInputShifted(split_txid, i) == Input(split_txid, i + 1, SatoshisPerOutput)

\* chunk_utxo_input and manifest_utxo_input
ChunkInput(split_txid, i) == Input(split_txid, i, SatoshisPerOutput)
ManifestInput(job, split_txid) == Input(split_txid, TotalChunks(job), SatoshisPerOutput)

\* the transaction of chunk i (0-based)
ChunkTx(job, split_txid, i) ==
    Tx(<<ChunkInput(split_txid, i)>>,
       <<Output(create_flac_chunk_script(i, FileChunks(Get(job.file_data))[i + 1]), 1)>>)

\* a txid list that grows at the front
PushTxidFront(chunk_txids, txid) == <<txid>> \o chunk_txids

\* chunk_txids.push(txid)
PushTxid(chunk_txids, txid) == Append(chunk_txids, txid)

\* a loop that does not advance
SameChunk(i) == i

\* the chunk loop (for (i, chunk) in chunks.iter().enumerate()): the index
\* after i
NextChunk(i) == i + 1

\* the manifest transaction
ManifestTx(job, split_txid, chunk_txids, cover_txid) ==
    Tx(<<ManifestInput(job, split_txid)>>,
       <<Output(create_flac_manifest_script(
                    Get(job.filename), Len(Get(job.file_data)),
                    [k \in 1..Len(chunk_txids) |-> TxidText(chunk_txids[k])],
                    job.track_title, job.artist_name, job.lyrics,
                    IF IsSome(cover_txid) THEN Some(TxidText(Get(cover_txid))) ELSE None),
                1)>>)

\* the single container: script, fee and transaction over all the UTXOs
SingleScript(job) ==
    create_flac_store_script(ProtoStore, MimeFlac,
        StoreMetadataJson(Get(job.filename), Len(Get(job.file_data))),
        split_into_chunks(Get(job.file_data), max_chunk_size))
SingleFee(job) == Fee(150 + Len(SingleScript(job)))
SingleTx(job, utxos) ==
    Tx([k \in 1..Len(utxos) |-> Input(utxos[k].txid, utxos[k].vout, utxos[k].satoshis)],
       <<Output(SingleScript(job), 1)>>)

\* progress of chunk i: 10.0 + (i / total_chunks) * 70.0
ChunkProgress(i, total_chunks) == <<10 * total_chunks + 70 * i, total_chunks>>

\* the wait before attempt `retry` of a chunk broadcast, in seconds
RetryDelay(retry) == IF retry > 0 THEN 2 ^ retry ELSE 0


(***************************************************************************)
(* Initial state and the requests (routes/flac.rs)                         *)
(***************************************************************************)
InitWith(e) ==
    /\ jobs = <<>>
    /\ unspent = [j \in JobIds |-> <<>>]
    /\ tasks = <<>>
    /\ chain = {}
    /\ files = <<>>
    /\ faults = e.faults
    /\ env = e
    /\ calls = <<>>
    /\ codec = <<>>
    /\ plan = <<>>
    /\ store = <<>>

\* the whole system: uploads of every size, plain on mainnet or with cover
\* and title on testnet, downloads, and tasks side by side
SampleInputs ==
    { [size |-> n, cover |-> None, title |-> None, network |-> "mainnet"] :
        n \in 1..MaxFileSize }
    \cup
    { [size |-> n, cover |-> Some(CoverImage), title |-> Some(Title),
       network |-> "testnet"] : n \in 1..MaxFileSize }
SystemEnv ==
    [jobs |-> MaxJobs, uploads |-> 1, tasks |-> MaxTasks, faults |-> MaxFaults,
     inputs |-> SampleInputs, funding |-> {<<600>>}]
Init == InitWith(SystemEnv)

\* one upload on its own, over every input and funding
UploadEnv ==
    [jobs |-> 1, uploads |-> 1, tasks |-> 1, faults |-> MaxFailures,
     inputs |-> UploadInputs, funding |-> FundingAmounts]
InitUpload == InitWith(UploadEnv)

\* the watcher over several uploads that wait for their payment side by
\* side: a small file and a chunked one with a cover
WatchInputs ==
    { [size |-> 1, cover |-> None, title |-> None, network |-> "mainnet"],
      [size |-> max_tx_data_size + 1, cover |-> Some(CoverImage), title |-> Some(Title),
       network |-> "testnet"] }
WatchEnv ==
    [jobs |-> MaxJobs, uploads |-> MaxJobs, tasks |-> MaxTasks,
     faults |-> MaxFaults, inputs |-> WatchInputs, funding |-> {<<600>>}]
InitWatch == InitWith(WatchEnv)

UploadJobs == {j \in DOMAIN jobs : jobs[j].job_type = "flac_upload"}

\* prepare_flac_upload: a new upload job waiting for its payment
PrepareFlacUpload ==
    /\ Len(jobs) < env.jobs
    /\ Cardinality(UploadJobs) < env.uploads
    /\ \E input \in env.inputs :
          jobs' = Append(jobs, FlacUploadJob(Len(jobs) + 1, input))
    /\ UNCHANGED <<plan, store, env, calls, codec, unspent, tasks, chain, files, faults>>

\* the payer funds the address of a job
Fund ==
    /\ \E j \in UploadJobs :
          /\ unspent[j] = <<>>
          /\ \E amounts \in env.funding :
                unspent' = [unspent EXCEPT ![j] = Funding(j, amounts)]
    /\ UNCHANGED <<plan, store, env, calls, codec, jobs, tasks, chain, files, faults>>

\* "upfile" and "application/octet-stream"
ProtoUpfile == <<117, 112, 102, 105, 108, 101>>
MimeOctet ==
    <<97, 112, 112, 108, 105, 99, 97, 116, 105, 111, 110, 47,
      111, 99, 116, 101, 116, 45, 115, 116, 114, 101, 97, 109>>

\* the transaction of a legacy upload (process_upload): one OP_RETURN
\* output of 0 satoshis with protocol, mime type, file name and data
LegacyUploadTx ==
    Tx(<<Input(99, 0, 600)>>,
       <<Output(create_op_return_script(<<ProtoUpfile, MimeOctet, Filename, Payload(2)>>), 0)>>)

\* a legacy upload was made: the mainnet holds its transaction
LegacyUpload ==
    /\ \A c \in chain : c.raw # Get(create_transaction(LegacyUploadTx))
    /\ chain' = chain \cup
          {[txid |-> BroadcastTxid(Get(create_transaction(LegacyUploadTx))),
            raw |-> Get(create_transaction(LegacyUploadTx)), network |-> "mainnet"]}
    /\ UNCHANGED <<plan, store, env, calls, codec, jobs, unspent, tasks, files, faults>>

\* the txids a download may be asked for: any transaction of the network,
\* and one the network does not hold
DownloadTxids == {c.txid : c \in chain} \cup {0}

\* start_flac_download: a new download job, processing, and its task
StartFlacDownload ==
    /\ Len(jobs) < env.jobs
    /\ Len(tasks) < env.tasks
    /\ \E txid \in DownloadTxids, network \in Networks :
          /\ jobs' = Append(jobs, FlacDownloadJob(Len(jobs) + 1, txid, network))
          /\ tasks' = Append(tasks,
                NewTask(Len(jobs) + 1, "d_begin", "flac_download", network))
    /\ UNCHANGED <<plan, store, env, calls, codec, unspent, chain, files, faults>>

(***************************************************************************)
(* Payment watcher (main.rs, payment_watcher)                              *)
(***************************************************************************)
\* an iteration that first waits for every task it spawned to end
WatcherIterationAwaiting ==
    /\ \A t \in 1..Len(tasks) : tasks[t].pc \in {"done", "panicked"}
    /\ PendingJobs # {}
    /\ Len(tasks) + Cardinality(PendingJobs) <= env.tasks
    /\ tasks' = tasks \o
          [k \in 1..Cardinality(PendingJobs) |->
              NewTask(SetToSeq(PendingJobs)[k], "check",
                      jobs[SetToSeq(PendingJobs)[k]].job_type,
                      jobs[SetToSeq(PendingJobs)[k]].network)]
    /\ UNCHANGED <<plan, store, env, calls, codec, jobs, unspent, chain, files, faults>>

\* a watcher that stops after its first iteration
WatcherIterationOnce ==
    /\ tasks = <<>>
    /\ PendingJobs # {}
    /\ Len(tasks) + Cardinality(PendingJobs) <= env.tasks
    /\ tasks' = tasks \o
          [k \in 1..Cardinality(PendingJobs) |->
              NewTask(SetToSeq(PendingJobs)[k], "check",
                      jobs[SetToSeq(PendingJobs)[k]].job_type,
                      jobs[SetToSeq(PendingJobs)[k]].network)]
    /\ UNCHANGED <<plan, store, env, calls, codec, jobs, unspent, chain, files, faults>>

\* one iteration: a check task is spawned for every pending job
WatcherIteration ==
    /\ PendingJobs # {}
    /\ Len(tasks) + Cardinality(PendingJobs) <= env.tasks
    /\ tasks' = tasks \o
          [k \in 1..Cardinality(PendingJobs) |->
              NewTask(SetToSeq(PendingJobs)[k], "check",
                      jobs[SetToSeq(PendingJobs)[k]].job_type,
                      jobs[SetToSeq(PendingJobs)[k]].network)]
    /\ UNCHANGED <<plan, store, env, calls, codec, jobs, unspent, chain, files, faults>>

\* a check that takes a gateway error for a payment
CheckPaymentTrusting(t) ==
    /\ tasks[t].pc = "check"
    /\ \E ok \in BOOLEAN :
          /\ GatewayAnswers(ok)
          /\ tasks' = [tasks EXCEPT ![t].pc =
                IF ~ok \/ unspent[tasks[t].job] # <<>> THEN "set_processing" ELSE "done"]
    /\ UNCHANGED <<plan, store, env, calls, codec, jobs, unspent, chain, files>>

\* the check task asks the gateway for the address's unspent outputs
CheckPayment(t) ==
    /\ tasks[t].pc = "check"
    /\ \E ok \in BOOLEAN :
          /\ GatewayAnswers(ok)
          /\ tasks' = [tasks EXCEPT ![t].pc =
                IF ok /\ unspent[tasks[t].job] # <<>> THEN "set_processing" ELSE "done"]
    /\ UNCHANGED <<plan, store, env, calls, codec, jobs, unspent, chain, files>>

\* has_payment: update_job_status(Processing), then process_job
SetProcessing(t) ==
    /\ tasks[t].pc = "set_processing"
    /\ WriteJob(t, update_job_status(jobs[tasks[t].job], "processing",
                                     "Payment received, processing..."))
    /\ tasks' = [tasks EXCEPT ![t].pc = "u_begin"]
    /\ UNCHANGED <<plan, store, env, calls, codec, unspent, chain, files, faults>>


(***************************************************************************)
(* Upload orchestrator (main.rs, process_job and process_flac_upload):     *)
(* one action per stretch of code that ends in a write of the job row      *)
(***************************************************************************)
\* the step after the cover step: the chunked path or the single container
AfterCover(t, task) ==
    IF NeedsChunking(jobs[task.job])
    THEN Progress(t, task, Pct(5), "Preparing UTXO split", "u_split_build")
    ELSE Progress(t, task, Pct(30), "Creating FLAC transaction...", "u_single_build")

\* process_job reads the row; process_flac_upload writes its first progress
UploadBegin(t) ==
    /\ tasks[t].pc = "u_begin"
    /\ IF ~IsSome(jobs[tasks[t].job].file_data)
       THEN Fail(t, tasks[t], "No file data found")
       ELSE Progress(t, tasks[t], Pct(5), "Fetching UTXOs...", "u_utxos")
    /\ UNCHANGED <<plan, store, env, calls, codec, unspent, chain, files, faults>>

\* the UTXOs of the payment address are fetched
UploadUtxos(t) ==
    /\ tasks[t].pc = "u_utxos"
    /\ \E ok \in BOOLEAN :
          /\ GatewayAnswers(ok)
          /\ LET task == [tasks[t] EXCEPT !.utxos = unspent[tasks[t].job]]
             IN  IF ~ok THEN Fail(t, tasks[t], "Failed to get UTXOs")
                 ELSE IF task.utxos = <<>> THEN Fail(t, tasks[t], "No UTXOs found")
                 ELSE IF IsSome(jobs[task.job].cover_data)
                 THEN Progress(t, task, Pct(3), "Uploading cover image...", "u_cover")
                 ELSE AfterCover(t, task)
    /\ UNCHANGED <<plan, store, env, calls, codec, unspent, chain, files>>

\* the cover transaction is built and broadcast once; a failure is not fatal
UploadCover(t) ==
    /\ tasks[t].pc = "u_cover"
    /\ \E task \in {Built(tasks[t], CoverTx(jobs[tasks[t].job], Head(tasks[t].utxos)))} :
           IF ~IsSome(task.raw_tx)
           THEN /\ AfterCover(t, [task EXCEPT !.utxos = Tail(task.utxos)])
                /\ UNCHANGED <<chain, faults>>
           ELSE \E txid \in {BroadcastTxid(Get(task.raw_tx))}, ok \in BOOLEAN :
                    LET job == jobs[task.job]
                    IN 
                       /\ GatewayAnswers(ok)
                       /\ Accept(ok, txid, Get(task.raw_tx), task.network)
                       /\ AfterCover(t,
                             [task EXCEPT
                                !.utxos = UtxosAfterCover(job, task.utxos, ok, txid),
                                !.cover_txid = IF ok THEN Some(txid) ELSE None,
                                !.log = Append(task.log,
                                          LogEntry(task, "cover", 0, 0, ok, txid))])
    /\ UNCHANGED <<plan, store, env, calls, codec, unspent, files>>

\* the split transaction is built from the first UTXO
UploadSplitBuild(t) ==
    /\ tasks[t].pc = "u_split_build"
    /\ LET task == tasks[t]
           split_tx == SplitTx(jobs[task.job], task.utxos)
       IN  IF task.utxos = <<>> THEN Panic(t, task)
           ELSE IF ~IsSome(split_tx) THEN Fail(t, task, "Failed to create split tx")
           ELSE \E built \in {Built(task, Get(split_tx))} :
                   IF ~IsSome(built.raw_tx) THEN Fail(t, task, "Failed to create split tx")
                   ELSE Progress(t, built, Pct(8),
                                 "Broadcasting UTXO split transaction...", "u_split_bc")
    /\ UNCHANGED <<plan, store, env, calls, codec, unspent, chain, files, faults>>

\* the split transaction is broadcast once
UploadSplitBroadcast(t) ==
    /\ tasks[t].pc = "u_split_bc"
    /\ LET task == tasks[t]
       IN  \E txid \in {BroadcastTxid(Get(task.raw_tx))}, ok \in BOOLEAN :
              /\ GatewayAnswers(ok)
              /\ Accept(ok, txid, Get(task.raw_tx), task.network)
              /\ LET logged == [task EXCEPT !.log = Append(task.log,
                                  LogEntry(task, "split", 0, 0, ok, txid))]
                 IN  IF ~ok THEN Fail(t, logged, "Failed to broadcast split tx")
                     ELSE Progress(t, [logged EXCEPT !.split_txid = Some(txid), !.i = 0],
                                   Pct(10), "Uploading chunks", "u_chunk_progress")
    /\ UNCHANGED <<plan, store, env, calls, codec, unspent, files>>

\* the head of the chunk loop: the progress of chunk i, then its transaction
UploadChunkProgress(t) ==
    /\ tasks[t].pc = "u_chunk_progress"
    /\ \E built \in {Built([tasks[t] EXCEPT !.retry = 0],
                           ChunkTx(jobs[tasks[t].job], Get(tasks[t].split_txid),
                                   tasks[t].i))} :
          Progress(t, built, ChunkProgress(tasks[t].i, TotalChunks(jobs[tasks[t].job])),
                   "Uploading chunk", "u_chunk_bc")
    /\ UNCHANGED <<plan, store, env, calls, codec, unspent, chain, files, faults>>

\* one attempt of the retry loop of chunk i (after the wait, when it is a
\* retry)
UploadChunkBroadcast(t) ==
    /\ tasks[t].pc = "u_chunk_bc"
    /\ LET task == tasks[t]
       IN  IF ~IsSome(task.raw_tx)
           THEN /\ Fail(t, task, "Failed to create chunk tx")
                /\ UNCHANGED <<chain, faults>>
           ELSE \E txid \in {BroadcastTxid(Get(task.raw_tx))}, ok \in BOOLEAN :
                    LET logged(answer) ==
                            [task EXCEPT !.log = Append(task.log,
                                LogEntry(task, "chunk", task.i,
                                         RetryDelay(task.retry), answer, txid))]
                        pushed == [logged(TRUE) EXCEPT
                                     !.chunk_txids = PushTxid(task.chunk_txids, txid)]
                    IN 
                       /\ GatewayAnswers(ok)
                       /\ Accept(ok, txid, Get(task.raw_tx), task.network)
                       /\ IF ok /\ NextChunk(task.i) < TotalChunks(jobs[task.job])
                          THEN /\ tasks' = [tasks EXCEPT ![t] =
                                    [pushed EXCEPT !.i = NextChunk(task.i),
                                                   !.pc = "u_chunk_progress"]]
                               /\ UNCHANGED jobs
                          ELSE IF ok
                          THEN Progress(t, pushed, Pct(85), "Creating manifest...",
                                        "u_manifest_build")
                          ELSE IF task.retry + 1 < ChunkAttempts
                          THEN /\ tasks' = [tasks EXCEPT ![t] =
                                    [logged(FALSE) EXCEPT !.retry = task.retry + 1]]
                               /\ UNCHANGED jobs
                          ELSE Fail(t, logged(FALSE),
                                    "Failed to broadcast chunk after 5 retries")
    /\ UNCHANGED <<plan, store, env, calls, codec, unspent, files>>

\* the manifest transaction is built from the last split output
UploadManifestBuild(t) ==
    /\ tasks[t].pc = "u_manifest_build"
    /\ \E task \in {Built(tasks[t],
                          ManifestTx(jobs[tasks[t].job], Get(tasks[t].split_txid),
                                     tasks[t].chunk_txids, tasks[t].cover_txid))} :
           IF ~IsSome(task.raw_tx) THEN Fail(t, tasks[t], "Failed to create manifest tx")
           ELSE Progress(t, task, Pct(95), "Broadcasting manifest...", "u_manifest_bc")
    /\ UNCHANGED <<plan, store, env, calls, codec, unspent, chain, files, faults>>

\* a last broadcast that is tried again after a failure
RetriedFinalBroadcast(t, task, kind, message) ==
    \E txid \in {BroadcastTxid(Get(task.raw_tx))}, ok \in BOOLEAN :
           /\ GatewayAnswers(ok)
           /\ Accept(ok, txid, Get(task.raw_tx), task.network)
           /\ WriteJob(t, IF ok THEN update_job_complete(jobs[task.job], txid, None)
                          ELSE jobs[task.job])
           /\ tasks' = [tasks EXCEPT ![t] =
                 [task EXCEPT !.pc = IF ok THEN "done" ELSE task.pc,
                              !.log = Append(task.log,
                                        LogEntry(task, kind, 0, 0, ok, txid))]]

\* the last broadcast of an upload: update_job_complete on success,
\* update_job_error on failure
FinalBroadcast(t, task, kind, message) ==
    \E txid \in {BroadcastTxid(Get(task.raw_tx))}, ok \in BOOLEAN :
           /\ GatewayAnswers(ok)
           /\ Accept(ok, txid, Get(task.raw_tx), task.network)
           /\ WriteJob(t, IF ok THEN update_job_complete(jobs[task.job], txid, None)
                          ELSE update_job_error(jobs[task.job], message))
           /\ tasks' = [tasks EXCEPT ![t] =
                 [task EXCEPT !.pc = "done",
                              !.log = Append(task.log,
                                        LogEntry(task, kind, 0, 0, ok, txid))]]

\* the manifest transaction is broadcast once
UploadManifestBroadcast(t) ==
    /\ tasks[t].pc = "u_manifest_bc"
    /\ FinalBroadcast(t, tasks[t], "manifest", "Failed to broadcast manifest")
    /\ UNCHANGED <<plan, store, env, calls, codec, unspent, files>>

\* the single container is built over all the UTXOs
UploadSingleBuild(t) ==
    /\ tasks[t].pc = "u_single_build"
    /\ \E task \in {Built(tasks[t], SingleTx(jobs[tasks[t].job], tasks[t].utxos))} :
           IF TotalInput(task.utxos) < SingleFee(jobs[task.job])
           THEN Fail(t, tasks[t], "Insufficient funds")
           ELSE IF ~IsSome(task.raw_tx) THEN Fail(t, tasks[t], "Failed to create tx")
           ELSE Progress(t, task, Pct(60), "Broadcasting FLAC transaction...",
                         "u_single_bc")
    /\ UNCHANGED <<plan, store, env, calls, codec, unspent, chain, files, faults>>

\* the single container is broadcast once
UploadSingleBroadcast(t) ==
    /\ tasks[t].pc = "u_single_bc"
    /\ FinalBroadcast(t, tasks[t], "single", "Broadcast failed")
    /\ UNCHANGED <<plan, store, env, calls, codec, unspent, files>>

(***************************************************************************)
(* Download orchestrator (main.rs, process_job and process_flac_download)  *)
(***************************************************************************)
\* std::fs::write(./data/downloads/<filename>, data)
WriteFile(ok, filename, data) ==
    files' = IF ok
             THEN [f \in DOMAIN files \cup {filename} |->
                      IF f = filename THEN data ELSE files[f]]
             ELSE files

\* format!("/downloads/{}", filename)
DownloadLink(filename) == <<47, 100, 47>> \o filename

\* progress of chunk i: 15.0 + 75.0 * (i / total_chunks)
FetchProgress(i, total_chunks) == <<15 * total_chunks + 75 * i, total_chunks>>

\* a buffer that grows at the front
PrependData(all_data, chunk_data) == chunk_data \o all_data

\* all_data.extend(chunk_data)
ExtendData(all_data, chunk_data) == all_data \o chunk_data

\* process_job reads the row; process_flac_download writes its first progress
DownloadBegin(t) ==
    /\ tasks[t].pc = "d_begin"
    /\ IF ~IsSome(jobs[tasks[t].job].manifest_txid)
       THEN Fail(t, tasks[t], "No TXID provided")
       ELSE Progress(t, [tasks[t] EXCEPT !.txid = jobs[tasks[t].job].manifest_txid],
                     Pct(5), "Fetching manifest transaction...", "d_fetch")
    /\ UNCHANGED <<plan, store, env, calls, codec, unspent, chain, files, faults>>

\* the transaction of the requested txid is fetched
DownloadFetch(t) ==
    /\ tasks[t].pc = "d_fetch"
    /\ \E ok \in BOOLEAN :
          /\ GatewayAnswers(ok)
          /\ LET tx_data == IF ok THEN FetchRaw(TxidText(Get(tasks[t].txid)),
                                                tasks[t].network)
                            ELSE None
             IN  IF ~IsSome(tx_data) THEN Fail(t, tasks[t], "Failed to fetch tx")
                 ELSE Progress(t, [tasks[t] EXCEPT !.tx_data = Get(tx_data)],
                               Pct(10), "Parsing transaction...", "d_parse")
    /\ UNCHANGED <<plan, store, env, calls, codec, unspent, chain, files>>

\* the decoders are tried in order: manifest, then single container
DownloadParse(t) ==
    /\ tasks[t].pc = "d_parse"
    /\ \E manifest \in {extract_flac_manifest_from_tx(tasks[t].tx_data)},
          single \in {extract_flac_from_tx(tasks[t].tx_data)} :
           LET task == tasks[t] IN
           IF manifest.tag = "panic"
           THEN Panic(t, task) /\ UNCHANGED <<files, faults>>
           ELSE IF manifest.tag = "some"
           THEN /\ tasks' = [tasks EXCEPT ![t] =
                     [task EXCEPT !.manifest = Some(manifest.val), !.i = 0,
                                  !.pc = "d_chunk_progress"]]
                /\ UNCHANGED <<jobs, files, faults>>
           ELSE IF single.tag = "panic"
           THEN Panic(t, task) /\ UNCHANGED <<files, faults>>
           ELSE IF single.tag = "some"
           THEN \E ok \in BOOLEAN :
                  /\ GatewayAnswers(ok)
                  /\ WriteFile(ok, single.val[2], single.val[1])
                  /\ WriteJob(t, IF ok
                        THEN update_job_complete_with_filename(
                                 jobs[task.job], Get(task.txid),
                                 Some(DownloadLink(single.val[2])), single.val[2])
                        ELSE update_job_error(jobs[task.job], "Failed to save file"))
                  /\ tasks' = [tasks EXCEPT ![t] =
                        [task EXCEPT !.pc = "done",
                                     !.saved = IF ok THEN Some(single.val) ELSE None]]
           ELSE /\ Fail(t, task, "No FLAC data found in transaction")
                /\ UNCHANGED <<files, faults>>
    /\ UNCHANGED <<plan, store, env, calls, codec, unspent, chain>>

\* the head of the fetch loop: the progress of chunk i
DownloadChunkProgress(t) ==
    /\ tasks[t].pc = "d_chunk_progress"
    /\ Progress(t, tasks[t],
                FetchProgress(tasks[t].i, Len(Get(tasks[t].manifest).chunk_txids)),
                "Downloading chunk", "d_chunk_fetch")
    /\ UNCHANGED <<plan, store, env, calls, codec, unspent, chain, files, faults>>

\* chunk i is fetched and decoded; after the last one the save is announced
DownloadChunkFetch(t) ==
    /\ tasks[t].pc = "d_chunk_fetch"
    /\ \E ok \in BOOLEAN :
          /\ GatewayAnswers(ok)
          /\ LET task == tasks[t]
                 chunk_txids == Get(task.manifest).chunk_txids
                 chunk_tx_data == IF ok THEN FetchRaw(chunk_txids[task.i + 1], task.network)
                                  ELSE None
             IN  IF ~IsSome(chunk_tx_data) THEN Fail(t, task, "Failed to fetch chunk")
                 ELSE \E chunk_data \in {extract_flac_chunk_from_tx(Get(chunk_tx_data))} :
                    IF chunk_data.tag = "panic" THEN Panic(t, task)
                    ELSE IF chunk_data.tag = "none"
                    THEN Fail(t, task, "Failed to extract data from chunk")
                    ELSE LET got == [task EXCEPT
                                       !.all_data = ExtendData(task.all_data, chunk_data.val),
                                       !.i = task.i + 1]
                         IN  IF task.i + 1 < Len(chunk_txids)
                             THEN /\ tasks' = [tasks EXCEPT ![t] =
                                       [got EXCEPT !.pc = "d_chunk_progress"]]
                                  /\ UNCHANGED jobs
                             ELSE Progress(t, got, Pct(95), "Saving file...", "d_save")
    /\ UNCHANGED <<plan, store, env, calls, codec, unspent, chain, files>>

\* the file is written, then update_job_complete_with_filename
DownloadSave(t) ==
    /\ tasks[t].pc = "d_save"
    /\ \E ok \in BOOLEAN :
          /\ GatewayAnswers(ok)
          /\ LET task == tasks[t]
                 filename == Get(task.manifest).filename
             IN  /\ WriteFile(ok, filename, task.all_data)
                 /\ WriteJob(t, IF ok
                       THEN update_job_complete_with_filename(
                                jobs[task.job], Get(task.txid),
                                Some(DownloadLink(filename)), filename)
                       ELSE update_job_error(jobs[task.job], "Failed to save file"))
                 /\ tasks' = [tasks EXCEPT ![t] =
                       [task EXCEPT !.pc = IF ok THEN "d_metadata" ELSE "done",
                                    !.saved = IF ok THEN Some(<<task.all_data, filename>>)
                                              ELSE None]]
    /\ UNCHANGED <<plan, store, env, calls, codec, unspent, chain>>

\* update_job_metadata with the manifest's title, artist and lyrics
DownloadMetadata(t) ==
    /\ tasks[t].pc = "d_metadata"
    /\ LET m == Get(tasks[t].manifest)
       IN  /\ WriteJob(t, update_job_metadata(jobs[tasks[t].job],
                                              m.title, m.artist, m.lyrics))
           /\ tasks' = [tasks EXCEPT ![t].pc =
                 IF IsSome(m.cover_txid) THEN "d_cover" ELSE "done"]
    /\ UNCHANGED <<plan, store, env, calls, codec, unspent, chain, files, faults>>

\* update_job_cover_txid when the manifest names a cover
DownloadCover(t) ==
    /\ tasks[t].pc = "d_cover"
    /\ WriteJob(t, update_job_cover_txid(jobs[tasks[t].job],
                                         Get(Get(tasks[t].manifest).cover_txid)))
    /\ tasks' = [tasks EXCEPT ![t].pc = "done"]
    /\ UNCHANGED <<plan, store, env, calls, codec, unspent, chain, files, faults>>

(***************************************************************************)
(* The gateway client, one call at a time (services/bitails.rs and the     *)
(* testnet functions of main.rs).  An HTTP answer is [sent, success,       *)
(* text]: whether the request got an answer at all, whether the status is  *)
(* 2xx, and the body.                                                      *)
(***************************************************************************)
\* the length of a txid text (64 in the program)
TxidChars == 2 * TxidBytes

\* trimmed.len() == 64 && trimmed.chars().all(|c| c.is_ascii_hexdigit())
IsTxidText(cs) == Len(cs) = TxidChars /\ \A k \in 1..Len(cs) : HexVal(cs[k]) >= 0

\* str::trim_matches over a set of characters: they are taken off both ends
TrimMatches(cs, W) ==
    IF \A k \in 1..Len(cs) : cs[k] \in W THEN <<>>
    ELSE SubSeq(cs, CHOOSE k \in 1..Len(cs) : cs[k] \notin W /\ \A m \in 1..(k - 1) : cs[m] \in W,
                    CHOOSE k \in 1..Len(cs) : cs[k] \notin W /\ \A m \in (k + 1)..Len(cs) : cs[m] \in W)

\* str::trim
Trim(cs) == TrimMatches(cs, {9, 10, 13, 32})

\* trim().trim_matches('"')
TrimQuoted(cs) == TrimMatches(Trim(cs), {34})

\* the members "txid" and "error" of a broadcast answer
KeyTxid == 105
KeyError == 101

GatewayOk(val) == [ok |-> TRUE, val |-> val]
GatewayErr == [ok |-> FALSE, val |-> <<>>]

\* BitailsClient::broadcast_via_bitails: the status is not looked at; an
\* object with an error member fails, an object with a txid member gives
\* that text, and any other body gives its trimmed text when that is a txid
broadcast_via_bitails(r) ==
    IF ~r.sent THEN GatewayErr
    ELSE LET json == JsonParse(r.text)
             trimmed == TrimQuoted(r.text)
         IN  IF IsSome(json) /\ IsSome(JsonGetStr(Get(json), KeyError)) THEN GatewayErr
             ELSE IF IsSome(json) /\ IsSome(JsonGetStr(Get(json), KeyTxid))
             THEN GatewayOk(Get(JsonGetStr(Get(json), KeyTxid)))
             ELSE IF IsTxidText(trimmed) THEN GatewayOk(trimmed)
             ELSE GatewayErr

\* BitailsClient::broadcast_via_whatsonchain
broadcast_via_whatsonchain(r) ==
    IF ~r.sent THEN GatewayErr
    ELSE IF IsTxidText(TrimQuoted(r.text)) THEN GatewayOk(TrimQuoted(r.text))
    ELSE GatewayErr

\* broadcast_testnet_tx: Ok(txid.trim().trim_matches('"').trim())
broadcast_testnet_tx(r) ==
    IF ~r.sent \/ ~r.success THEN GatewayErr
    ELSE GatewayOk(Trim(TrimQuoted(r.text)))

\* response.json() of an unspent listing: Bitails answers an object, the
\* testnet indexer an array
UnspentParses(backend, text) ==
    IF backend = "bitails" THEN IsSome(JsonParse(text))
    ELSE Len(text) >= 2 /\ text[1] = 91 /\ text[Len(text)] = 93

\* get_address_unspent, check_testnet_payment and
\* get_testnet_utxos_for_upload: what the caller learns
address_unspent(backend, r) ==
    IF r.sent /\ r.success /\ UnspentParses(backend, r.text) THEN GatewayOk(<<>>)
    ELSE GatewayErr

\* download_tx_raw and the testnet arm of fetch_tx_raw
tx_raw(backend, r) == IF r.sent /\ r.success THEN GatewayOk(r.text) ELSE GatewayErr

\* the backends and the network each one serves
Backends == {"bitails", "whatsonchain_main", "whatsonchain_test"}
BackendNetwork(backend) == IF backend = "whatsonchain_test" THEN "testnet" ELSE "mainnet"

\* a dispatch that forgets the network
BitailsAlways(network) == "bitails"

\* `if network == "testnet" { ... } else { ... }` at every call site
PrimaryBackend(network) ==
    IF network = "testnet" THEN "whatsonchain_test" ELSE "bitails"

\* what the call returns for the answer of one backend
Answer(backend, op, r) ==
    IF op = "unspent" THEN address_unspent(backend, r)
    ELSE IF op = "raw" THEN tx_raw(backend, r)
    ELSE IF backend = "bitails" THEN broadcast_via_bitails(r)
    ELSE IF backend = "whatsonchain_main" THEN broadcast_via_whatsonchain(r)
    ELSE broadcast_testnet_tx(r)

\* BitailsClient::broadcast_transaction: WhatsOnChain is tried after a
\* failed Bitails broadcast; the lookups have no second backend
FallsBack(backend, op, result) ==
    backend = "bitails" /\ op = "broadcast" /\ ~result.ok

GatewayOps == {"unspent", "raw", "broadcast"}

\* a txid text, one character short, and one with a letter that is no hex digit
GoodTxid == TxidText(11259375)
ShortTxid == Tail(GoodTxid)
NonHexTxid == <<103>> \o Tail(GoodTxid)

\* bodies of broadcast answers: the quoted txid with its newline, the bare
\* txid, the object with a txid member, and the same with texts that are no
\* txid; an error object, an error object that carries a txid, an error page
BroadcastTexts ==
    { <<34>> \o GoodTxid \o <<34, 10>>, GoodTxid,
      <<34>> \o ShortTxid \o <<34>>, <<34>> \o NonHexTxid \o <<34>>,
      JsonText(<<JsonMember(KeyTxid, GoodTxid)>>),
      JsonText(<<JsonMember(KeyTxid, ShortTxid)>>),
      JsonText(<<JsonMember(KeyTxid, NonHexTxid)>>),
      JsonText(<<JsonMember(KeyError, <<98, 97, 100>>)>>),
      JsonText(<<JsonMember(KeyError, <<98, 97, 100>>), JsonMember(KeyTxid, GoodTxid)>>),
      <<98, 97, 100>>, <<>> }

\* bodies of lookup answers: an object, an array, something else
LookupTexts == { JsonText(<<>>), <<91, 93>>, <<98, 97, 100>> }

HttpAnswers(op) ==
    {[sent |-> FALSE, success |-> FALSE, text |-> <<>>]}
    \cup [sent : {TRUE}, success : BOOLEAN,
          text : IF op = "broadcast" THEN BroadcastTexts ELSE LookupTexts]

\* a call site: an operation of the gateway on behalf of a job, with the
\* network of the job
GatewayCall ==
    /\ Len(calls) < MaxCalls
    /\ \E j \in DOMAIN jobs, op \in GatewayOps :
          calls' = Append(calls,
             [job |-> j, op |-> op, network |-> NetworkOfJob(jobs[j]), pc |-> "primary",
              contacted |-> <<>>, result |-> GatewayErr])
    /\ UNCHANGED <<plan, store, env, codec, jobs, unspent, tasks, chain, files, faults>>

\* the backend answers, and the call goes on with what it makes of it
Contact(c, backend, r, result, pc) ==
    calls' = [calls EXCEPT ![c] =
        [calls[c] EXCEPT !.contacted = Append(calls[c].contacted,
                                             [backend |-> backend, answer |-> r]),
                         !.result = result, !.pc = pc]]

\* the first backend of the call
GatewayPrimary(c) ==
    /\ calls[c].pc = "primary"
    /\ \E backend \in {PrimaryBackend(calls[c].network)}, r \in HttpAnswers(calls[c].op) :
          \E result \in {Answer(backend, calls[c].op, r)} :
             Contact(c, backend, r, result,
                     IF FallsBack(backend, calls[c].op, result) THEN "secondary"
                     ELSE "returned")
    /\ UNCHANGED <<plan, store, env, codec, jobs, unspent, tasks, chain, files, faults>>

\* the second backend of a mainnet broadcast
GatewaySecondary(c) ==
    /\ calls[c].pc = "secondary"
    /\ \E r \in HttpAnswers(calls[c].op) :
          Contact(c, "whatsonchain_main", r,
                  Answer("whatsonchain_main", calls[c].op, r), "returned")
    /\ UNCHANGED <<plan, store, env, codec, jobs, unspent, tasks, chain, files, faults>>

(***************************************************************************)
(* The system                                                              *)
(***************************************************************************)
Next ==
    \/ PrepareFlacUpload
    \/ Fund
    \/ StartFlacDownload
    \/ WatcherIteration
    \/ \E t \in TaskIds : CheckPayment(t)
    \/ \E t \in TaskIds : SetProcessing(t)
    \/ \E t \in TaskIds : UploadBegin(t)
    \/ \E t \in TaskIds : UploadUtxos(t)
    \/ \E t \in TaskIds : UploadCover(t)
    \/ \E t \in TaskIds : UploadSplitBuild(t)
    \/ \E t \in TaskIds : UploadSplitBroadcast(t)
    \/ \E t \in TaskIds : UploadChunkProgress(t)
    \/ \E t \in TaskIds : UploadChunkBroadcast(t)
    \/ \E t \in TaskIds : UploadManifestBuild(t)
    \/ \E t \in TaskIds : UploadManifestBroadcast(t)
    \/ \E t \in TaskIds : UploadSingleBuild(t)
    \/ \E t \in TaskIds : UploadSingleBroadcast(t)
    \/ \E t \in TaskIds : DownloadBegin(t)
    \/ \E t \in TaskIds : DownloadFetch(t)
    \/ \E t \in TaskIds : DownloadParse(t)
    \/ \E t \in TaskIds : DownloadChunkProgress(t)
    \/ \E t \in TaskIds : DownloadChunkFetch(t)
    \/ \E t \in TaskIds : DownloadSave(t)
    \/ \E t \in TaskIds : DownloadMetadata(t)
    \/ \E t \in TaskIds : DownloadCover(t)

Spec == Init /\ [][Next]_vars

\* one upload on its own: the requests, the watcher and the upload steps
NextUpload ==
    \/ PrepareFlacUpload
    \/ Fund
    \/ WatcherIteration
    \/ \E t \in TaskIds : CheckPayment(t)
    \/ \E t \in TaskIds : SetProcessing(t)
    \/ \E t \in TaskIds : UploadBegin(t)
    \/ \E t \in TaskIds : UploadUtxos(t)
    \/ \E t \in TaskIds : UploadCover(t)
    \/ \E t \in TaskIds : UploadSplitBuild(t)
    \/ \E t \in TaskIds : UploadSplitBroadcast(t)
    \/ \E t \in TaskIds : UploadChunkProgress(t)
    \/ \E t \in TaskIds : UploadChunkBroadcast(t)
    \/ \E t \in TaskIds : UploadManifestBuild(t)
    \/ \E t \in TaskIds : UploadManifestBroadcast(t)
    \/ \E t \in TaskIds : UploadSingleBuild(t)
    \/ \E t \in TaskIds : UploadSingleBroadcast(t)

SpecUpload == InitUpload /\ [][NextUpload]_vars

\* the watcher and the uploads of several pending jobs
SpecWatch == InitWatch /\ [][NextUpload]_vars

\* the whole system next to a legacy upload, without failures of the outside
LegacyEnv ==
    [jobs |-> MaxJobs, uploads |-> 1, tasks |-> MaxTasks, faults |-> 0,
     inputs |-> WatchInputs, funding |-> {<<600>>}]
InitLegacy == InitWith(LegacyEnv)
NextLegacy == Next \/ LegacyUpload
SpecLegacy == InitLegacy /\ [][NextLegacy]_vars

\* the gateway calls made for a job of either kind on either network
GatewayInputs ==
    { [size |-> 1, cover |-> None, title |-> None, network |-> n] : n \in Networks }
GatewayEnv ==
    [jobs |-> 1, uploads |-> 1, tasks |-> 1, faults |-> 0,
     inputs |-> GatewayInputs, funding |-> {<<600>>}]
InitGateway == InitWith(GatewayEnv)
NextGateway ==
    \/ PrepareFlacUpload
    \/ StartFlacDownload
    \/ GatewayCall
    \/ \E c \in 1..Len(calls) : GatewayPrimary(c)
    \/ \E c \in 1..Len(calls) : GatewaySecondary(c)
SpecGateway == InitGateway /\ [][NextGateway]_vars

(***************************************************************************)
(* The funding of the chunk and manifest transactions at the sizes of the  *)
(* program (main.rs, process_flac_upload).  Only the lengths of the        *)
(* scripts enter the fee, so the scripts are followed by their lengths.    *)
(***************************************************************************)
\* max_tx_data_size of process_flac_upload and the body limit of the router
MaxTxDataBytes == 1048576
BodyLimit == 52428800

\* BsvService::push_data: the bytes one push of len bytes adds to a script
push_data_len(len) ==
    (IF len <= 75 THEN 1 ELSE IF len <= 255 THEN 2 ELSE IF len <= 65535 THEN 3 ELSE 5) + len

\* the length of BsvService::create_flac_chunk_script(chunk_index, _, data)
chunk_script_len(chunk_index, data_len) ==
    2 + push_data_len(Len(ProtoChunk)) + push_data_len(Len(DecStr(chunk_index)))
    + push_data_len(data_len) + 1

\* the length of the manifest's metadata JSON as serde_json writes it:
\* {"chunks":N,"mime":"audio/flac","size":S,"version":"1.0"} and, for each
\* optional member that is present, a comma, its quoted key, a colon and its
\* quoted text
manifest_metadata_len(file_size, n_chunks, title_len, artist_len, lyrics_len, has_cover) ==
    55 + Len(DecStr(n_chunks)) + Len(DecStr(file_size))
    + (IF title_len > 0 THEN 11 + title_len ELSE 0)
    + (IF artist_len > 0 THEN 12 + artist_len ELSE 0)
    + (IF lyrics_len > 0 THEN 12 + lyrics_len ELSE 0)
    + (IF has_cover THEN 16 + 64 ELSE 0)

\* the length of BsvService::create_flac_manifest_script
manifest_script_len(filename_len, metadata_len, n_chunks, txid_len) ==
    2 + push_data_len(Len(ProtoManifest)) + push_data_len(filename_len)
    + push_data_len(metadata_len) + n_chunks * push_data_len(txid_len) + 1

\* what an upload request may carry within the body limit: the chunks of
\* its payload by index and length, and its manifest by file name, title,
\* lyrics and cover
PlanInput(kind, index, size, filename, title, lyrics, cover) ==
    [kind |-> kind, index |-> index, size |-> size, filename |-> filename,
     title |-> title, lyrics |-> lyrics, cover |-> cover]
ChunkPlans ==
    { PlanInput("chunk", i, n, 0, 0, 0, FALSE) :
        i \in {0, 9, 10, 48},
        n \in {1, 75, 76, 255, 256, 65535, 65536, MaxTxDataBytes - 1, MaxTxDataBytes} }
ManifestPlans ==
    { p \in { PlanInput("manifest", 0, s, f, t, l, c) :
                s \in {MaxTxDataBytes + 1, 2 * MaxTxDataBytes, 48 * MaxTxDataBytes},
                f \in {6, 255, 2 * MaxTxDataBytes},
                t \in {0, 1},
                l \in {0, 100, 4000, 2 * MaxTxDataBytes},
                c \in BOOLEAN } :
        p.size + p.filename + p.lyrics <= BodyLimit }
PlanInputs == ChunkPlans \cup ManifestPlans

FundingEnv ==
    [jobs |-> 0, uploads |-> 0, tasks |-> 0, faults |-> 0, inputs |-> {}, funding |-> {}]
InitFunding ==
    /\ jobs = <<>>
    /\ unspent = [j \in JobIds |-> <<>>]
    /\ tasks = <<>>
    /\ chain = {}
    /\ files = <<>>
    /\ faults = 0
    /\ env = FundingEnv
    /\ calls = <<>>
    /\ codec = <<>>
    /\ store = <<>>
    /\ plan \in { [pc |-> "input", input |-> i, script_len |-> 0,
                   input_satoshis |-> 0, output_satoshis |-> 0] : i \in PlanInputs }

\* the chunk step: the script of chunk i, its dedicated split output as
\* the input, and one satoshi on the data output
PlanChunk ==
    /\ plan.pc = "input"
    /\ plan.input.kind = "chunk"
    /\ plan' = [plan EXCEPT
                  !.pc = "planned",
                  !.script_len = chunk_script_len(plan.input.index, plan.input.size),
                  !.input_satoshis = calculate_chunk_output_satoshis(MaxTxDataBytes),
                  !.output_satoshis = 1]
    /\ UNCHANGED <<store, env, calls, codec, jobs, unspent, tasks, chain, files, faults>>

\* the manifest step: the manifest script over the txids of all the chunks,
\* the last split output as the input, and one satoshi on the data output
PlanManifest ==
    /\ plan.pc = "input"
    /\ plan.input.kind = "manifest"
    /\ LET n_chunks == (plan.input.size + MaxTxDataBytes - 1) \div MaxTxDataBytes
           metadata_len == manifest_metadata_len(plan.input.size, n_chunks,
                               plan.input.title, 0, plan.input.lyrics, plan.input.cover)
       IN  plan' = [plan EXCEPT
                      !.pc = "planned",
                      !.script_len = manifest_script_len(plan.input.filename,
                                         metadata_len, n_chunks, 64),
                      !.input_satoshis = calculate_chunk_output_satoshis(MaxTxDataBytes),
                      !.output_satoshis = 1]
    /\ UNCHANGED <<store, env, calls, codec, jobs, unspent, tasks, chain, files, faults>>

NextFunding == PlanChunk \/ PlanManifest
SpecFunding == InitFunding /\ [][NextFunding]_vars

(***************************************************************************)
(* The job store's connection mutex (db/sqlite.rs, Database.conn).  Every  *)
(* Database method takes the mutex in its first statement and gives it     *)
(* back when it returns; the tasks of main.rs call these methods between   *)
(* their gateway calls, sleeps and signings.  A task is followed through   *)
(* the operations of its kind, each entered and left in a step of its own. *)
(***************************************************************************)
\* payment_watcher: get_pending_payment_jobs (main.rs 123), then the sleep
\* (159), again and again
WatcherOps == <<"store", "sleep", "store", "sleep">>
\* a check task and the chunked path of process_flac_upload, one chunk with
\* one retry, by the lines of main.rs: the unspent outputs (141),
\* update_job_status (150), get_job (258), update_job_progress (484), the
\* UTXOs (500), update_job_progress (647), the split signed (658),
\* update_job_progress (680), broadcast (687), sleep (703),
\* update_job_progress (712, 727), the chunk signed (758), broadcast (786),
\* sleep (779), broadcast (786), sleep (810), update_job_progress (816), the
\* manifest signed (842), update_job_progress (857), broadcast (864),
\* update_job_complete (870)
UploadOps ==
    <<"gateway", "store", "store", "store", "gateway", "store", "sign", "store",
      "gateway", "sleep", "store", "store", "sign", "gateway", "sleep", "gateway",
      "sleep", "store", "sign", "store", "gateway", "store">>
\* process_job and process_flac_download over one chunk: get_job (258),
\* update_job_progress (1074), the manifest fetched (1077),
\* update_job_progress (1090, 1110), the chunk fetched (1117), sleep (1142),
\* update_job_progress (1147), update_job_complete_with_filename (1165),
\* update_job_metadata (1172), update_job_cover_txid (1180)
DownloadOps ==
    <<"store", "store", "gateway", "store", "store", "gateway", "sleep", "store",
      "store", "store", "store">>
StoreTasks == <<WatcherOps, UploadOps, DownloadOps>>
StoreTaskIds == 1..Len(StoreTasks)

\* the operation task t is at, or "end"
OpOf(t) ==
    IF store.at[t] <= Len(StoreTasks[t]) THEN StoreTasks[t][store.at[t]] ELSE "end"

InitStore ==
    /\ jobs = <<>>
    /\ unspent = [j \in JobIds |-> <<>>]
    /\ tasks = <<>>
    /\ chain = {}
    /\ files = <<>>
    /\ faults = 0
    /\ env = FundingEnv
    /\ calls = <<>>
    /\ codec = <<>>
    /\ plan = <<>>
    /\ store = [holder |-> 0, at |-> [t \in StoreTaskIds |-> 1],
                inside |-> [t \in StoreTaskIds |-> FALSE]]

\* a method that hands the guard back to its caller
StoreLeaveHolding(t) ==
    /\ OpOf(t) = "store"
    /\ store.inside[t]
    /\ store' = [store EXCEPT !.at[t] = @ + 1, !.inside[t] = FALSE]
    /\ UNCHANGED <<plan, env, calls, codec, jobs, unspent, tasks, chain, files, faults>>

\* let conn = self.conn.lock().unwrap(): the task goes on when the mutex is
\* free, and holds it
StoreEnter(t) ==
    /\ OpOf(t) = "store"
    /\ ~store.inside[t]
    /\ store.holder = 0
    /\ store' = [store EXCEPT !.holder = t, !.inside[t] = TRUE]
    /\ UNCHANGED <<plan, env, calls, codec, jobs, unspent, tasks, chain, files, faults>>

\* the statement is executed and the method returns, Ok or Err: the guard
\* goes out of scope
StoreLeave(t) ==
    /\ OpOf(t) = "store"
    /\ store.inside[t]
    /\ store' = [store EXCEPT !.holder = 0, !.at[t] = @ + 1, !.inside[t] = FALSE]
    /\ UNCHANGED <<plan, env, calls, codec, jobs, unspent, tasks, chain, files, faults>>

\* a gateway call, a sleep or a signing begins
OutsideBegin(t) ==
    /\ OpOf(t) \in {"gateway", "sleep", "sign"}
    /\ ~store.inside[t]
    /\ store' = [store EXCEPT !.inside[t] = TRUE]
    /\ UNCHANGED <<plan, env, calls, codec, jobs, unspent, tasks, chain, files, faults>>

\* it returns
OutsideEnd(t) ==
    /\ OpOf(t) \in {"gateway", "sleep", "sign"}
    /\ store.inside[t]
    /\ store' = [store EXCEPT !.at[t] = @ + 1, !.inside[t] = FALSE]
    /\ UNCHANGED <<plan, env, calls, codec, jobs, unspent, tasks, chain, files, faults>>

NextStore ==
    \/ \E t \in StoreTaskIds : StoreEnter(t)
    \/ \E t \in StoreTaskIds : StoreLeave(t)
    \/ \E t \in StoreTaskIds : OutsideBegin(t)
    \/ \E t \in StoreTaskIds : OutsideEnd(t)
SpecStore == InitStore /\ [][NextStore]_vars

\* one upload under a watcher that is scheduled again and again (the loop
\* of payment_watcher sleeps 3 s and goes on) and whose spawned check tasks
\* are run by the runtime
FairEnv ==
    [jobs |-> 1, uploads |-> 1, tasks |-> MaxTasks, faults |-> MaxFaults,
     inputs |-> WatchInputs, funding |-> {<<600>>}]
InitFair == InitWith(FairEnv)
CheckStep(t) == t \in TaskIds /\ (CheckPayment(t) \/ SetProcessing(t))
SpecFair ==
    /\ InitFair
    /\ [][NextUpload]_vars
    /\ WF_vars(WatcherIteration)
    /\ \A t \in 1..MaxTasks : WF_vars(CheckStep(t))

\* downloads side by side of what earlier uploads left on the network: a
\* small file in a single container, and a chunked file with a cover, both
\* uploaded under the same file name
OnNetwork(tx) ==
    [txid |-> BroadcastTxid(Get(create_transaction(tx))),
     raw |-> Get(create_transaction(tx)), network |-> "mainnet"]
EarlierSmall == FlacUploadJob(1, [size |-> 1, cover |-> None, title |-> None, network |-> "mainnet"])
EarlierLarge == FlacUploadJob(2, [size |-> max_tx_data_size + 1, cover |-> None, title |-> Some(Title), network |-> "mainnet"])
EarlierSplitTxid == BroadcastTxid(Get(create_transaction(Get(SplitTx(EarlierLarge, Funding(2, <<600>>))))))
EarlierChunks ==
    [k \in 1..TotalChunks(EarlierLarge) |-> OnNetwork(ChunkTx(EarlierLarge, EarlierSplitTxid, k - 1))]
EarlierManifest ==
    OnNetwork(ManifestTx(EarlierLarge, EarlierSplitTxid,
                         [k \in 1..Len(EarlierChunks) |-> EarlierChunks[k].txid],
                         Some(Funding(2, <<600>>)[1].txid)))
EarlierUploads ==
    {OnNetwork(SingleTx(EarlierSmall, Funding(1, <<600>>))), EarlierManifest}
    \cup {EarlierChunks[k] : k \in 1..Len(EarlierChunks)}
DownloadsEnv ==
    [jobs |-> MaxJobs, uploads |-> 0, tasks |-> MaxTasks, faults |-> MaxFaults,
     inputs |-> {}, funding |-> {}]
InitDownloads ==
    /\ jobs = <<>>
    /\ unspent = [j \in JobIds |-> <<>>]
    /\ tasks = <<>>
    /\ chain = EarlierUploads
    /\ files = <<>>
    /\ faults = DownloadsEnv.faults
    /\ env = DownloadsEnv
    /\ calls = <<>>
    /\ codec = <<>>
    /\ plan = <<>>
    /\ store = <<>>
NextDownloads ==
    \/ StartFlacDownload
    \/ \E t \in TaskIds : DownloadBegin(t)
    \/ \E t \in TaskIds : DownloadFetch(t)
    \/ \E t \in TaskIds : DownloadParse(t)
    \/ \E t \in TaskIds : DownloadChunkProgress(t)
    \/ \E t \in TaskIds : DownloadChunkFetch(t)
    \/ \E t \in TaskIds : DownloadSave(t)
    \/ \E t \in TaskIds : DownloadMetadata(t)
    \/ \E t \in TaskIds : DownloadCover(t)
SpecDownloads == InitDownloads /\ [][NextDownloads]_vars


(***************************************************************************)
(* The codec on its own: one encoder applied to one input, the bytes       *)
(* optionally put into a transaction or cut short, then one decoder        *)
(* applied to them.  Scripts are decoded the way the extract functions     *)
(* hand them over: the two envelope bytes are skipped.                     *)
(***************************************************************************)
\* BsvService::read_push_data(script, pos): Ok((data, next position)) or Err
bsv_read_push_data(script, pos) ==
    LET n == Len(script)
        opcode == script[pos + 1]
        Take(data_len, data_start) ==
            IF data_start + data_len > n THEN None
            ELSE Some(<<SubSeq(script, data_start + 1, data_start + data_len),
                        data_start + data_len>>)
    IN  IF pos >= n THEN None
        ELSE IF opcode <= 75 THEN Take(opcode, pos + 1)
        ELSE IF opcode = 76 THEN
            (IF pos + 1 >= n THEN None ELSE Take(script[pos + 2], pos + 2))
        ELSE IF opcode = 77 THEN
            (IF pos + 2 >= n THEN None
             ELSE Take(LeValue(SubSeq(script, pos + 2, pos + 3)), pos + 3))
        ELSE IF opcode = 78 THEN
            (IF pos + 4 >= n THEN None
             ELSE Take(LeValue(SubSeq(script, pos + 2, pos + 5)), pos + 5))
        ELSE None

RECURSIVE CoverChunks(_, _)
\* the loop of parse_coverart_script: the image pushes from offset i up to
\* OP_ENDIF, the end of the script, or the first push that cannot be read
CoverChunks(script, i) ==
    IF i >= Len(script) THEN <<>>
    ELSE IF script[i + 1] = 104 THEN <<>>
    ELSE Bind(read_push_data(script, i), LAMBDA r :
            IF r = None THEN <<>>
            ELSE Get(r)[1] \o CoverChunks(script, i + Get(r)[2]))

\* parse_coverart_script(&script[p..])
parse_coverart_script(script, p) ==
    Bind(read_push_data(script, p), LAMBDA first :
      IF first = None THEN None
      ELSE IF Get(first)[1] # ProtoCover THEN None
      ELSE Bind(CoverChunks(script, p + Get(first)[2]), LAMBDA image_data :
             IF image_data # <<>> THEN Some(image_data) ELSE None))

Artist == <<65, 98>>
Lyrics == <<76, 97, 10>>

CodecInput(op, filename, size, parts, title, artist, lyrics, cover_txid) ==
    [op |-> op, filename |-> filename, size |-> size, parts |-> parts,
     title |-> title, artist |-> artist, lyrics |-> lyrics, cover_txid |-> cover_txid]

\* manifests: file names, sizes, chunk lists in either order, and each
\* optional field absent, empty or given
ManifestInputs ==
    { CodecInput("manifest", f, n, c, t, a, l, x) :
        f \in {Filename, <<>>}, n \in {1, 300},
        c \in { <<TxidText(1)>>, <<TxidText(1), TxidText(2)>>,
                <<TxidText(2), TxidText(1)>> },
        t \in {None, Some(<<>>), Some(Title)}, a \in {None, Some(Artist)},
        l \in {None, Some(Lyrics)}, x \in {None, Some(TxidText(3))} }

\* the push lengths at both sides of every form of the writer
PushLengths == {0, 1, 2, 75, 76, 77, 255, 256, 257, 65535, 65536}

PlainInput(op, filename, size, parts) ==
    CodecInput(op, filename, size, parts, None, None, None, None)

\* chunks, single containers, covers, legacy OP_RETURN scripts under the
\* legacy tag and under another one, single pushes, and scripts that no
\* encoder writes
OtherInputs ==
    { PlainInput("chunk", <<>>, k, <<d>>) : k \in {0, 1}, d \in {Payload(1), Payload(3)} }
    \cup { PlainInput("store", Filename, Len(d), split_into_chunks(d, 2)) :
              d \in {Payload(1), Payload(5)} }
    \cup { PlainInput("cover", <<>>, 0, <<d>>) : d \in {CoverImage, Payload(3)} }
    \cup { PlainInput("op_return", Filename, 0, <<tag, MimeOctet, Filename, Payload(2)>>) :
              tag \in {ProtoUpfile, ProtoStore} }
    \cup { PlainInput("push", <<>>, len, <<>>) : len \in PushLengths }
    \cup { PlainInput("raw", <<>>, 0, <<bs>>) :
              bs \in { <<0, 99>>, <<0, 99, 255>>, <<0, 99, 106, 1, 7>>,
                       <<0, 99, 76>>, <<0, 99, 77, 1>>, <<0, 99, 78, 1, 0, 0>>,
                       <<0, 99, 79, 0>>, <<0, 99, 104>> } }

CodecInputs == ManifestInputs \cup OtherInputs

\* the inputs whose encodings are also cut short
CutInputs ==
    OtherInputs \cup
    { i \in ManifestInputs : i.filename = Filename /\ i.size = 1 /\ Len(i.parts) = 2
                             /\ i.artist = None /\ i.lyrics = None
                             /\ i.title # Some(<<>>) /\ IsSome(i.title) = IsSome(i.cover_txid) }

\* the encoder of each kind of input
EncodeInput(i) ==
    CASE i.op = "manifest" ->
           create_flac_manifest_script(i.filename, i.size, i.parts,
                                       i.title, i.artist, i.lyrics, i.cover_txid)
      [] i.op = "chunk" -> create_flac_chunk_script(i.size, i.parts[1])
      [] i.op = "store" ->
           create_flac_store_script(ProtoStore, MimeFlac,
                                    StoreMetadataJson(i.filename, i.size), i.parts)
      [] i.op = "cover" -> create_cover_image_script(i.parts[1])
      [] i.op = "op_return" -> create_op_return_script(i.parts)
      [] i.op = "push" -> push_data(Payload(i.size))
      [] OTHER -> i.parts[1]

ScriptDecoders == {"manifest", "chunk", "store", "cover", "op_return"}
PushDecoders == {"read_push_data", "bsv_read_push_data"}
TxDecoders == {"tx_manifest", "tx_chunk", "tx_store", "tx_op_return"}

DecodersOf(form) ==
    IF form = "script" THEN ScriptDecoders
    ELSE IF form = "push" THEN PushDecoders
    ELSE TxDecoders

\* an Option as a reader result
ROf(opt) == IF opt = None THEN RNone ELSE RSome(Get(opt))

\* one decoder applied to the bytes
Decode(decoder, bytes) ==
    CASE decoder = "manifest" -> ROf(parse_flac_manifest_script(bytes, 2))
      [] decoder = "chunk" -> ROf(parse_flac_chunk_script(bytes, 2))
      [] decoder = "store" -> ROf(parse_flac_store_script(bytes, 2))
      [] decoder = "cover" -> ROf(parse_coverart_script(bytes, 2))
      [] decoder = "op_return" -> ROf(parse_op_return_script(bytes, 2))
      [] decoder = "read_push_data" -> ROf(read_push_data(bytes, 0))
      [] decoder = "bsv_read_push_data" -> ROf(bsv_read_push_data(bytes, 0))
      [] decoder = "tx_manifest" -> extract_flac_manifest_from_tx(bytes)
      [] decoder = "tx_chunk" -> extract_flac_chunk_from_tx(bytes)
      [] decoder = "tx_store" -> extract_flac_from_tx(bytes)
      [] OTHER -> extract_op_return_from_tx(bytes)

\* the lengths an encoding is cut to: every shorter length up to MaxCut
\* and the loss of the last byte alone; a script keeps its two envelope bytes
CutLengths(form, bytes) ==
    { n \in (IF form = "script" THEN 2 ELSE 0)..(Len(bytes) - 1) :
        n <= MaxCut \/ n = Len(bytes) - 1 }

CodecRun(i) ==
    [pc |-> "input", input |-> i, form |-> "none", bytes |-> <<>>, cut |-> FALSE,
     decoder |-> "none", out |-> RNone]

CodecEnv ==
    [jobs |-> 0, uploads |-> 0, tasks |-> 0, faults |-> 0,
     inputs |-> {}, funding |-> {}]

InitCodec ==
    /\ jobs = <<>>
    /\ unspent = [j \in JobIds |-> <<>>]
    /\ tasks = <<>>
    /\ chain = {}
    /\ files = <<>>
    /\ faults = 0
    /\ env = CodecEnv
    /\ calls = <<>>
    /\ codec \in {CodecRun(i) : i \in CodecInputs}
    /\ plan = <<>>
    /\ store = <<>>

\* the encoder writes the script (or the single push) of the input
CodecEncode ==
    /\ codec.pc = "input"
    /\ codec' = [codec EXCEPT !.pc = "encoded", !.bytes = EncodeInput(codec.input),
                              !.form = IF codec.input.op = "push" THEN "push" ELSE "script"]
    /\ UNCHANGED <<plan, store, env, calls, jobs, unspent, tasks, chain, files, faults>>

\* the script becomes the only output of a signed transaction, as hex text
CodecWrap ==
    /\ codec.pc = "encoded"
    /\ codec.form = "script"
    /\ ~codec.cut
    /\ codec' = [codec EXCEPT !.form = "tx",
          !.bytes = Get(create_transaction(
                           Tx(<<Input(99, 0, 600)>>, <<Output(codec.bytes, 1)>>)))]
    /\ UNCHANGED <<plan, store, env, calls, jobs, unspent, tasks, chain, files, faults>>

\* the bytes arrive cut short
CodecTruncate ==
    /\ codec.pc = "encoded"
    /\ ~codec.cut
    /\ codec.input \in CutInputs
    /\ \E n \in CutLengths(codec.form, codec.bytes) :
          codec' = [codec EXCEPT !.cut = TRUE, !.bytes = SubSeq(codec.bytes, 1, n)]
    /\ UNCHANGED <<plan, store, env, calls, jobs, unspent, tasks, chain, files, faults>>

\* one of the decoders of that form reads the bytes
CodecDecode ==
    /\ codec.pc = "encoded"
    /\ \E decoder \in DecodersOf(codec.form) :
          codec' = [codec EXCEPT !.pc = "decoded", !.decoder = decoder,
                                 !.out = Decode(decoder, codec.bytes)]
    /\ UNCHANGED <<plan, store, env, calls, jobs, unspent, tasks, chain, files, faults>>

NextCodec ==
    \/ CodecEncode
    \/ CodecWrap
    \/ CodecTruncate
    \/ CodecDecode
SpecCodec == InitCodec /\ [][NextCodec]_vars


(***************************************************************************)
(* Properties                                                              *)
(***************************************************************************)
UploadTasks == {t \in TaskIds : tasks[t].job_type = "flac_upload"}
DownloadTasks == {t \in TaskIds : tasks[t].job_type = "flac_download"}

\* the positions of a task's log whose entry is of the kind
EntriesOf(t, kind) == {k \in 1..Len(tasks[t].log) : tasks[t].log[k].kind = kind}

\* the step in hand is a step of task t
StepOf(t) == tasks'[t] # tasks[t]

\* C1: a check task of the payment watcher that acts on a job whose status is
\* Processing, Complete or Failed changes no field of the job and does not
\* start processing for it.
C1_WatcherIdempotent ==
    [][\A t \in TaskIds :
          (/\ tasks[t].pc \in {"check", "set_processing"}
           /\ jobs[tasks[t].job].status \in {"processing", "complete", "error"}
           /\ StepOf(t))
          => (jobs' = jobs /\ tasks'[t].pc # "u_begin")]_vars

\* C2: once a job's status is Complete or Failed, no step changes any field
\* of its row.
C2_TerminalImmutable ==
    [][\A j \in DOMAIN jobs :
          jobs[j].status \in {"complete", "error"} => jobs'[j] = jobs[j]]_vars

\* C3: within one processing attempt, every progress value written to the
\* job row is greater than or equal to the one written before it.
C3_ProgressMonotone ==
    \A t \in TaskIds :
       \A k \in 1..(Len(tasks[t].progress_log) - 1) :
          PLeq(tasks[t].progress_log[k], tasks[t].progress_log[k + 1])

\* the task has built its manifest transaction, which is then tasks[t].tx
ManifestBuilt(t) ==
    \/ tasks[t].pc = "u_manifest_bc"
    \/ EntriesOf(t, "manifest") # {}

\* the chunk_txids the manifest script of the task carries, as the manifest
\* parser reads them
ManifestTxids(t) ==
    Get(parse_flac_manifest_script(tasks[t].tx.outputs[1].script, 2)).chunk_txids

\* the successful chunk broadcasts of the task, in the order they happened
ChunkSuccesses(t) == SelectSeq(tasks[t].log, LAMBDA e : e.kind = "chunk" /\ e.ok)

\* ceil(P / M) for the job's payload
CeilChunks(j) ==
    (Len(Get(jobs[j].file_data)) + max_tx_data_size - 1) \div max_tx_data_size

\* C4: the chunk_txids list written into the manifest has exactly N entries,
\* and its i-th entry is the txid returned by the successful broadcast of
\* chunk i: the order of the list is the order of the successful broadcasts,
\* which is the ascending chunk index.
C4_ManifestTxidOrder ==
    \A t \in UploadTasks :
       ManifestBuilt(t) =>
          /\ Len(ManifestTxids(t)) = CeilChunks(tasks[t].job)
          /\ Len(ChunkSuccesses(t)) = CeilChunks(tasks[t].job)
          /\ \A i \in 1..Len(ChunkSuccesses(t)) :
                /\ ChunkSuccesses(t)[i].index = i - 1
                /\ ManifestTxids(t)[i] = TxidText(Get(ChunkSuccesses(t)[i].txid))

\* a manifest of three chunks, one of them broadcast on a retry
C4_Witness ==
    \E t \in UploadTasks :
       /\ ManifestBuilt(t)
       /\ Len(ManifestTxids(t)) >= 3
       /\ \E i \in 1..Len(ChunkSuccesses(t)) : ChunkSuccesses(t)[i].retry > 0

\* C5: within one upload the broadcasts are serial and ordered: no chunk is
\* broadcast before the split broadcast succeeded, chunk i+1 is not attempted
\* until the broadcast of chunk i succeeded (and chunk i is not attempted
\* again after it succeeded), and the manifest is broadcast only after all N
\* chunks succeeded.
C5_SerialBroadcasts ==
    \A t \in UploadTasks :
       LET log == tasks[t].log
           OkBefore(k, kind, index) ==
               \E m \in 1..(k - 1) :
                  log[m].kind = kind /\ log[m].index = index /\ log[m].ok
       IN  \A k \in 1..Len(log) :
              /\ log[k].kind = "chunk" =>
                    /\ OkBefore(k, "split", 0)
                    /\ log[k].index > 0 => OkBefore(k, "chunk", log[k].index - 1)
                    /\ ~OkBefore(k, "chunk", log[k].index)
                    /\ \A m \in 1..(k - 1) :
                          log[m].kind = "chunk" => log[m].index <= log[k].index
              /\ log[k].kind = "manifest" =>
                    /\ \A i \in 0..(CeilChunks(tasks[t].job) - 1) : OkBefore(k, "chunk", i)
                    /\ \A m \in (k + 1)..Len(log) : log[m].kind # "chunk"

\* a manifest broadcast after three chunks, with a failed attempt on the way
C5_Witness ==
    \E t \in UploadTasks :
       /\ EntriesOf(t, "manifest") # {}
       /\ CeilChunks(tasks[t].job) >= 3
       /\ \E k \in EntriesOf(t, "chunk") : ~tasks[t].log[k].ok

\* the positions of the task's log that are attempts of chunk i
AttemptsOf(t, i) == {k \in EntriesOf(t, "chunk") : tasks[t].log[k].index = i}

\* C6: each chunk is broadcast at most 5 times, the attempts of a chunk are
\* numbered 0, 1, 2, ... without a gap, and a success is the last attempt of
\* its chunk: it records exactly one txid for the chunk and the loop moves on.
\* While a chunk has fewer than 5 failures and no success the task is still
\* in its retry loop and the job is Processing; after the fifth failure the
\* job is Failed, the task has returned, and nothing was broadcast after
\* that attempt (no later chunk, no manifest).
C6_ChunkRetryBound ==
    \A t \in UploadTasks :
       LET log == tasks[t].log
           job == jobs[tasks[t].job]
       IN  /\ Len(tasks[t].chunk_txids) = Len(ChunkSuccesses(t))
           /\ \A i \in 0..(CeilChunks(tasks[t].job) - 1) :
                 LET A == AttemptsOf(t, i)
                     failed == {k \in A : ~log[k].ok}
                     won == {k \in A : log[k].ok}
                 IN  /\ Cardinality(A) <= 5
                     /\ \A k \in A : log[k].retry = Cardinality({m \in A : m < k})
                     /\ Cardinality(won) <= 1
                     /\ \A k \in won :
                           /\ \A m \in A : m <= k
                           /\ tasks[t].chunk_txids[i + 1] = Get(log[k].txid)
                           /\ ~(tasks[t].pc = "u_chunk_bc" /\ tasks[t].i = i)
                     /\ (A # {} /\ won = {} /\ Cardinality(failed) < 5) =>
                           /\ tasks[t].pc = "u_chunk_bc"
                           /\ tasks[t].i = i
                           /\ job.status = "processing"
                     /\ Cardinality(failed) = 5 =>
                           /\ tasks[t].pc = "done"
                           /\ job.status = "error"
                           /\ \A k \in DOMAIN log : \E m \in A : k <= m
                           /\ EntriesOf(t, "manifest") = {}

\* a chunk that failed four times and succeeded on its fifth attempt, in an
\* upload that went on to Complete
C6_Witness ==
    \E t \in UploadTasks :
       /\ jobs[tasks[t].job].status = "complete"
       /\ \E i \in 0..(CeilChunks(tasks[t].job) - 1) :
             /\ Cardinality(AttemptsOf(t, i)) = 5
             /\ \E k \in AttemptsOf(t, i) : tasks[t].log[k].ok

\* an upload task whose final broadcast (manifest or single container)
\* returned the txid the download task asks for, on the download's network
Uploaded(u, d) ==
    /\ tasks[u].network = tasks[d].network
    /\ \E k \in EntriesOf(u, "manifest") \cup EntriesOf(u, "single") :
          tasks[u].log[k].ok /\ tasks[u].log[k].txid = tasks[d].txid

\* C7: the chunks the upload cuts partition the payload in order, and a
\* download of the txid of a completed upload saves exactly the payload of
\* that upload; in a run without a failed outside call such a download does
\* not end without having saved it.
C7_RoundTrip ==
    /\ \A u \in UploadTasks :
          LET payload == Get(jobs[tasks[u].job].file_data)
          IN  /\ Concat(FileChunks(payload)) = payload
              /\ \A k \in DOMAIN FileChunks(payload) :
                    Len(FileChunks(payload)[k]) \in 1..max_tx_data_size
    /\ \A d \in DownloadTasks, u \in UploadTasks :
          Uploaded(u, d) =>
             LET payload == Get(jobs[tasks[u].job].file_data)
                 name == Get(jobs[tasks[u].job].filename)
             IN  /\ tasks[d].pc # "panicked"
                 /\ IsSome(tasks[d].saved) =>
                       /\ Get(tasks[d].saved)[1] = payload
                       /\ name \in DOMAIN files
                       /\ files[name] = payload
                 /\ (tasks[d].pc = "done" /\ faults = env.faults) =>
                       /\ IsSome(tasks[d].saved)
                       /\ jobs[tasks[d].job].status = "complete"

\* a download that saved the payload of an upload of more than two chunks
C7_Witness ==
    \E d \in DownloadTasks, u \in UploadTasks :
       /\ Uploaded(u, d)
       /\ IsSome(tasks[d].saved)
       /\ Len(Get(tasks[d].saved)[1]) > 2 * max_tx_data_size
       /\ jobs[tasks[d].job].status = "complete"

\* the task has built its split transaction
SplitBuilt(t) == tasks[t].pc = "u_split_bc" \/ EntriesOf(t, "split") # {}

\* the split transaction of the task: the one in hand, or the one broadcast
SplitTxOf(t) ==
    IF tasks[t].pc = "u_split_bc" THEN tasks[t].tx
    ELSE tasks[t].log[CHOOSE k \in EntriesOf(t, "split") : TRUE].tx

\* C8: the split transaction of an upload of N = ceil(P / M) chunks has the
\* N + 1 funding outputs at indices 0..N, each of per_output_funding to the
\* job's own address, and after them one change output exactly when what is
\* left of the input value after the funding outputs and the fee exceeds 546
\* (the change is that remainder); a split is built for multi-chunk uploads
\* only.
C8_SplitOutputs ==
    \A t \in UploadTasks :
       SplitBuilt(t) =>
          LET tx == SplitTxOf(t)
              n == CeilChunks(tasks[t].job)
              own == create_p2pkh_script(AddressOf(tasks[t].job))
              remainder == tx.inputs[1].satoshis - (n + 1) * SatoshisPerOutput
                           - Fee(10 + 148 + 34 * (n + 1))
          IN  /\ n >= 2
              /\ Len(tx.inputs) = 1
              /\ Len(tx.outputs) = IF remainder > 546 THEN n + 2 ELSE n + 1
              /\ \A k \in 1..(n + 1) : tx.outputs[k] = Output(own, SatoshisPerOutput)
              /\ remainder > 546 => tx.outputs[n + 2] = Output(own, remainder)
              /\ remainder >= 0

\* a split of a three-chunk upload that was broadcast with a change output
\* behind its four funding outputs
C8_Witness ==
    \E t \in UploadTasks :
       /\ \E k \in EntriesOf(t, "split") : tasks[t].log[k].ok
       /\ CeilChunks(tasks[t].job) = 3
       /\ Len(SplitTxOf(t).outputs) = 5

\* the txid the successful split broadcast of the task returned
SplitTxidOf(t) ==
    Get(tasks[t].log[CHOOSE k \in EntriesOf(t, "split") : tasks[t].log[k].ok].txid)

\* C9: every attempt of chunk i broadcasts a transaction whose only input is
\* output i of the task's split transaction, the manifest transaction's only
\* input is output N, each with the value per_output_funding that the split
\* output holds; two broadcasts of the upload that spend the same split
\* output are broadcasts of the same transaction.
C9_DedicatedInputs ==
    \A t \in UploadTasks :
       LET log == tasks[t].log
           n == CeilChunks(tasks[t].job)
           spends == EntriesOf(t, "chunk") \cup EntriesOf(t, "manifest")
       IN  /\ \A k \in EntriesOf(t, "chunk") :
                 log[k].tx.inputs =
                    <<Input(SplitTxidOf(t), log[k].index, SatoshisPerOutput)>>
           /\ \A k \in EntriesOf(t, "manifest") :
                 log[k].tx.inputs = <<Input(SplitTxidOf(t), n, SatoshisPerOutput)>>
           /\ \A k \in spends :
                 /\ log[k].tx.inputs[1].vout + 1 \in DOMAIN SplitTxOf(t).outputs
                 /\ SplitTxOf(t).outputs[log[k].tx.inputs[1].vout + 1].satoshis
                       = log[k].tx.inputs[1].satoshis
           /\ \A k, m \in spends :
                 log[k].tx.inputs[1].vout = log[m].tx.inputs[1].vout
                    => log[k].tx = log[m].tx

\* an upload that broadcast its manifest after a chunk that took a retry
C9_Witness ==
    \E t \in UploadTasks :
       /\ \E k \in EntriesOf(t, "manifest") : tasks[t].log[k].ok
       /\ \E i \in 0..(CeilChunks(tasks[t].job) - 1) :
             Cardinality(AttemptsOf(t, i)) >= 2

\* the step in hand is the final broadcast (manifest or single container)
\* of task t, and `ok` is how it ended
FinalBroadcastStep(t, ok) ==
    /\ tasks[t].pc \in {"u_manifest_bc", "u_single_bc"}
    /\ Len(tasks'[t].log) = Len(tasks[t].log) + 1
    /\ LET e == tasks'[t].log[Len(tasks'[t].log)]
       IN  /\ e.kind = (IF tasks[t].pc = "u_manifest_bc" THEN "manifest" ELSE "single")
           /\ e.ok = ok

\* C10: the status of an upload job turns to Complete only in the step in
\* which the final broadcast of one of its tasks returned success; that step
\* sets the manifest txid of the row to the txid the broadcast returned and
\* the progress to 100, and the network holds the transaction.  A final
\* broadcast that fails leaves the job Failed.
C10_CompleteOnFinalBroadcast ==
    [][\A j \in DOMAIN jobs :
          jobs[j].job_type = "flac_upload" =>
             /\ (jobs[j].status # "complete" /\ jobs'[j].status = "complete") =>
                   \E t \in TaskIds :
                      /\ tasks[t].job = j
                      /\ FinalBroadcastStep(t, TRUE)
                      /\ jobs'[j].manifest_txid = tasks'[t].log[Len(tasks'[t].log)].txid
                      /\ jobs'[j].progress = Pct(100)
                      /\ \E c \in chain' : Some(c.txid) = jobs'[j].manifest_txid
             /\ \A t \in TaskIds :
                   (tasks[t].job = j /\ FinalBroadcastStep(t, FALSE))
                      => jobs'[j].status = "error"]_vars

\* a chunked upload that is Complete, with the txid of its manifest
\* broadcast in the row
C10_Witness ==
    \E t \in UploadTasks :
       /\ jobs[tasks[t].job].status = "complete"
       /\ jobs[tasks[t].job].progress = Pct(100)
       /\ \E k \in EntriesOf(t, "manifest") :
             /\ tasks[t].log[k].ok
             /\ jobs[tasks[t].job].manifest_txid = tasks[t].log[k].txid

\* the cover broadcast of the task failed
CoverFailed(t) == \E k \in EntriesOf(t, "cover") : ~tasks[t].log[k].ok

\* a broadcast of the task other than the cover's failed
LaterStepFailed(t) ==
    \E k \in DOMAIN tasks[t].log : tasks[t].log[k].kind # "cover" /\ ~tasks[t].log[k].ok

\* what the gateway reports for the job's address pays for the upload
FundsSuffice(j) ==
    /\ unspent[j] # <<>>
    /\ IF NeedsChunking(jobs[j]) THEN IsSome(SplitTx(jobs[j], unspent[j]))
       ELSE TotalInput(unspent[j]) >= SingleFee(jobs[j])

\* C11: an upload whose cover broadcast failed is not failed by it: its task
\* does not abort, and the job is Failed only when a later broadcast failed
\* or the funding at the address does not pay for the upload; this for every
\* set of funding UTXOs, a single one included.
C11_CoverFailureNonFatal ==
    \A t \in UploadTasks :
       CoverFailed(t) =>
          /\ tasks[t].pc # "panicked"
          /\ jobs[tasks[t].job].status = "error" =>
                (LaterStepFailed(t) \/ ~FundsSuffice(tasks[t].job))

\* C12: the split broadcast and the manifest broadcast are each attempted at
\* most once per upload; a failed one is the last broadcast of the task,
\* which has returned with the job Failed (so no chunk is broadcast after a
\* failed split).
C12_SingleAttempt ==
    \A t \in UploadTasks :
       LET log == tasks[t].log
       IN  /\ Cardinality(EntriesOf(t, "split")) <= 1
           /\ Cardinality(EntriesOf(t, "manifest")) <= 1
           /\ \A k \in EntriesOf(t, "split") \cup EntriesOf(t, "manifest") :
                 ~log[k].ok =>
                    /\ k = Len(log)
                    /\ tasks[t].pc = "done"
                    /\ jobs[tasks[t].job].status = "error"
                    /\ jobs[tasks[t].job].manifest_txid = None
           /\ \A k \in EntriesOf(t, "chunk") :
                 \E m \in EntriesOf(t, "split") : m < k /\ log[m].ok

\* a manifest broadcast that failed after all the chunks of the upload
\* were broadcast
C12_Witness ==
    \E t \in UploadTasks :
       /\ \E k \in EntriesOf(t, "manifest") : ~tasks[t].log[k].ok
       /\ Len(ChunkSuccesses(t)) >= 2
       /\ jobs[tasks[t].job].status = "error"

\* the task is in an orchestrator (process_flac_upload, process_flac_download)
Orchestrating(t) == tasks[t].pc \notin {"check", "set_processing", "done", "panicked"}

\* the step ends the job's work well: the last broadcast of an upload was
\* accepted, the file of a download was saved, or it is one of the writes
\* after the Complete of a download
FinishingStep(t) ==
    \/ tasks[t].pc \in {"d_metadata", "d_cover"}
    \/ IsSome(tasks'[t].saved)
    \/ /\ Len(tasks'[t].log) > Len(tasks[t].log)
       /\ tasks'[t].log[Len(tasks'[t].log)].ok

\* a step of the orchestrator in which the task stops without finishing
StoppingStep(t) ==
    /\ Orchestrating(t)
    /\ tasks'[t].pc \in {"done", "panicked"}
    /\ ~FinishingStep(t)

\* the step leaves the job Failed with a message and the progress as it was
LeavesFailed(t) ==
    /\ jobs'[tasks[t].job].status = "error"
    /\ jobs'[tasks[t].job].message # ""
    /\ jobs'[tasks[t].job].progress = jobs[tasks[t].job].progress

\* a stopped task does nothing more
StaysStopped(t) == tasks[t].pc \in {"done", "panicked"} => tasks'[t] = tasks[t]

\* C13: a step in which an upload or download task stops without finishing
\* leaves the job Failed with a message and its progress unchanged, and the
\* stopped task takes no further step.
C13_FailureFreezes ==
    [][\A t \in TaskIds :
          /\ StoppingStep(t) => LeavesFailed(t)
          /\ StaysStopped(t)]_vars

\* the same for the stops in which the task returns (update_job_error, then
\* return): these leave the job Failed
ReturnedFailureFreezes ==
    [][\A t \in TaskIds :
          /\ (StoppingStep(t) /\ tasks'[t].pc = "done") => LeavesFailed(t)
          /\ StaysStopped(t)]_vars

\* the messages of the two insufficient-funds errors: of the split
\* ("Failed to create split tx: Insufficient funds for split: a < b + c")
\* and of the single container ("Insufficient funds: a < b")
InsufficientMessages == {"Failed to create split tx", "Insufficient funds"}

\* the address of the job holds less than the job's required amount
Underfunded(j) == TotalInput(unspent[j]) < RequiredSatoshis(jobs[j])

\* C14: an upload that was started for an address holding less than the
\* job's required amount broadcasts no split transaction and, once its task
\* has stopped, is Failed, with an insufficient-funds message when no call to
\* the outside failed.
C14_UnderfundedFails ==
    \A t \in UploadTasks :
       tasks[t].progress_log # <<>> /\ Underfunded(tasks[t].job) =>
          /\ EntriesOf(t, "split") = {}
          /\ tasks[t].pc \in {"done", "panicked"} =>
                /\ jobs[tasks[t].job].status = "error"
                /\ faults = env.faults =>
                      jobs[tasks[t].job].message \in InsufficientMessages

\* the step is the payment check of task t, and the gateway answered it
\* with at least one unspent output of the job's address
FundingReported(t) ==
    /\ tasks[t].pc = "check"
    /\ StepOf(t)
    /\ faults' = faults
    /\ unspent[tasks[t].job] # <<>>

Running(t) == Orchestrating(t)

CallIds == 1..Len(calls)

\* every task carries the network of its job's row
TaskNetworkIsJobNetwork ==
    \A t \in TaskIds : tasks[t].network = jobs[tasks[t].job].network

PrimaryFailed(c) ==
    ~Answer(calls[c].contacted[1].backend, calls[c].op, calls[c].contacted[1].answer).ok

\* the backends of a returned call: on mainnet the primary one, and after
\* it the secondary one exactly when the primary failed; on testnet one
BackendsAsSpecified(c) ==
    IF calls[c].network = "testnet"
    THEN Len(calls[c].contacted) = 1
    ELSE /\ calls[c].contacted[1].backend = "bitails"
         /\ IF PrimaryFailed(c)
            THEN /\ Len(calls[c].contacted) = 2
                 /\ calls[c].contacted[2].backend = "whatsonchain_main"
            ELSE Len(calls[c].contacted) = 1

\* C18: a returned mainnet call (broadcast, UTXO listing, raw fetch) tried
\* the secondary backend once exactly when the primary failed; a returned
\* testnet call contacted one backend.
C18_SecondaryOnce ==
    \A c \in CallIds : calls[c].pc = "returned" => BackendsAsSpecified(c)

\* the same for broadcasts alone
BroadcastFallback ==
    \A c \in CallIds :
       calls[c].pc = "returned" /\ calls[c].op = "broadcast" => BackendsAsSpecified(c)

\* a mainnet broadcast returned after its secondary backend was tried
BroadcastFellBack ==
    \E c \in CallIds :
       calls[c].pc = "returned" /\ calls[c].op = "broadcast" /\ Len(calls[c].contacted) = 2

\* C19: a broadcast call returns Ok only with a text of exactly the length
\* of a txid and of hex digits only, whatever the body of the answer and on
\* either network.
C19_TxidValidated ==
    \A c \in CallIds :
       calls[c].op = "broadcast" /\ calls[c].pc = "returned" /\ calls[c].result.ok =>
          IsTxidText(calls[c].result.val)

\* the same for the two answers the checks of the code cover: the bare or
\* quoted body on the mainnet backends
BareTxidValidated ==
    \A c \in CallIds :
       LET last == calls[c].contacted[Len(calls[c].contacted)]
       IN  (/\ calls[c].op = "broadcast" /\ calls[c].pc = "returned" /\ calls[c].result.ok
            /\ calls[c].network = "mainnet"
            /\ ~(last.backend = "bitails" /\ IsSome(JsonParse(last.answer.text)))) =>
              IsTxidText(calls[c].result.val)

\* C20: a download that has parsed its transaction took the manifest path
\* when the manifest decoder matches, else saved the single container when
\* that decoder matches, and is Failed with "No FLAC data found" only when
\* neither of them nor the legacy OP_RETURN decoder matches.
C20_DecoderOrder ==
    \A t \in DownloadTasks :
       (tasks[t].tx_data # <<>> /\ tasks[t].pc # "d_parse" /\ tasks[t].pc # "panicked") =>
          LET manifest == extract_flac_manifest_from_tx(tasks[t].tx_data)
              single == extract_flac_from_tx(tasks[t].tx_data)
              legacy == extract_op_return_from_tx(tasks[t].tx_data)
              job == jobs[tasks[t].job]
          IN  /\ manifest.tag = "some" => tasks[t].manifest = Some(manifest.val)
              /\ (manifest.tag # "some" /\ single.tag = "some") =>
                    tasks[t].saved = Some(single.val)
              /\ (job.status = "error" /\ job.message = "No FLAC data found in transaction") =>
                    (manifest.tag # "some" /\ single.tag # "some" /\ legacy.tag # "some")

\* the same without the legacy decoder
TwoDecodersInOrder ==
    \A t \in DownloadTasks :
       (tasks[t].tx_data # <<>> /\ tasks[t].pc # "d_parse" /\ tasks[t].pc # "panicked") =>
          LET manifest == extract_flac_manifest_from_tx(tasks[t].tx_data)
              single == extract_flac_from_tx(tasks[t].tx_data)
              job == jobs[tasks[t].job]
          IN  /\ manifest.tag = "some" => tasks[t].manifest = Some(manifest.val)
              /\ (manifest.tag # "some" /\ single.tag = "some") =>
                    tasks[t].saved = Some(single.val)
              /\ (job.status = "error" /\ job.message = "No FLAC data found in transaction") =>
                    (manifest.tag # "some" /\ single.tag # "some")

\* the messages of a chunk that could not be fetched or decoded
ChunkFailures == {"Failed to fetch chunk", "Failed to extract data from chunk"}

\* the task follows a manifest and has not got all of its chunks
ChunksMissing(t) ==
    /\ IsSome(tasks[t].manifest)
    /\ tasks[t].i < Len(Get(tasks[t].manifest).chunk_txids)

\* C21: a manifest download whose job carries the failure of a chunk has
\* returned with the job Failed and no file saved; a manifest download that
\* stopped before its last chunk carries such a failure; and a manifest
\* download completes only with all of its chunks.
C21_ChunkFailureFails ==
    \A t \in DownloadTasks :
       LET job == jobs[tasks[t].job]
       IN  /\ (job.status = "error" /\ job.message \in ChunkFailures) =>
                 /\ tasks[t].pc = "done"
                 /\ ChunksMissing(t)
                 /\ tasks[t].saved = None
                 /\ job.download_link = None
           /\ (ChunksMissing(t) /\ tasks[t].pc = "done") =>
                 (job.status = "error" /\ job.message \in ChunkFailures)
           /\ (IsSome(tasks[t].manifest) /\ job.status = "complete") => ~ChunksMissing(t)

\* the second chunk of a manifest download could not be fetched
C21_Witness ==
    \E t \in DownloadTasks :
       /\ ChunksMissing(t)
       /\ tasks[t].i >= 1
       /\ tasks[t].pc = "done"
       /\ jobs[tasks[t].job].status = "error"
       /\ tasks[t].saved = None

\* the manifest transaction tx_hex, whose only output carries the script,
\* declares size n: the script is the one that encodes manifest m with that
\* size field
DeclaresSize(tx_hex, m, n) ==
    LET tx_bytes == Get(HexDecode(tx_hex))
        script == create_flac_manifest_script(m.filename, n, m.chunk_txids,
                      m.title, m.artist, m.lyrics, m.cover_txid)
    IN  /\ Len(tx_bytes) >= Len(script) + 4
        /\ SubSeq(tx_bytes, Len(tx_bytes) - 3 - Len(script), Len(tx_bytes) - 4) = script

\* a manifest download that has run to its end with the job Complete
ManifestDownloaded(t) ==
    /\ t \in DownloadTasks
    /\ IsSome(tasks[t].manifest)
    /\ tasks[t].pc = "done"
    /\ jobs[tasks[t].job].status = "complete"

\* what the manifest names is on the job record
Surfaces(field, on_job) == IsSome(field) => on_job = field

PlainManifestDownloaded ==
    \E t \in DOMAIN tasks :
       /\ ManifestDownloaded(t)
       /\ ~IsSome(Get(tasks[t].manifest).title)

\* the upload of task t has a payload within the single-transaction limit
\* and no cover
SmallAndPlain(t) ==
    /\ Len(Get(jobs[tasks[t].job].file_data)) <= max_tx_data_size
    /\ jobs[tasks[t].job].cover_data = None

\* C23: an upload of at most max_tx_data_size bytes without a cover
\* broadcasts one transaction at most, the single container, never a cover,
\* split, chunk or manifest transaction; that broadcast ends the task and
\* decides the job (Complete when accepted, Failed when not), and the job
\* is Complete only through it.  An upload above max_tx_data_size never
\* broadcasts a single container and is Complete only after a split, its
\* chunks and a manifest were accepted.
C23_SingleContainerPath ==
    \A t \in UploadTasks :
       LET job == jobs[tasks[t].job]
           log == tasks[t].log
       IN  /\ SmallAndPlain(t) =>
                /\ Len(log) <= 1
                /\ \A k \in 1..Len(log) :
                      /\ log[k].kind = "single"
                      /\ tasks[t].pc = "done"
                      /\ job.status = (IF log[k].ok THEN "complete" ELSE "error")
                /\ job.status = "complete" => Len(log) = 1
           /\ NeedsChunking(job) =>
                /\ EntriesOf(t, "single") = {}
                /\ job.status = "complete" =>
                      /\ \E k \in EntriesOf(t, "split") : log[k].ok
                      /\ \E k \in EntriesOf(t, "manifest") : log[k].ok
                      /\ Len(ChunkSuccesses(t)) >= 2

\* a small upload without cover was decided by its one broadcast, accepted
C23_Witness ==
    \E t \in UploadTasks :
       /\ SmallAndPlain(t)
       /\ Len(Get(jobs[tasks[t].job].file_data)) = max_tx_data_size
       /\ Len(tasks[t].log) = 1
       /\ tasks[t].log[1].ok
       /\ jobs[tasks[t].job].status = "complete"

\* a small upload was Failed by its one broadcast, and a payload one byte
\* above the limit was completed over the chunked path
SingleBroadcastRefused ==
    \E t \in UploadTasks :
       /\ SmallAndPlain(t)
       /\ Len(tasks[t].log) = 1
       /\ ~tasks[t].log[1].ok

ChunkedJustAboveLimit ==
    \E t \in UploadTasks :
       /\ Len(Get(jobs[tasks[t].job].file_data)) = max_tx_data_size + 1
       /\ jobs[tasks[t].job].status = "complete"

\* the upload task stopped: it aborted inside the orchestrator, after the
\* job had entered Processing, and takes no further step
Stopped(t) == t \in UploadTasks /\ tasks[t].pc = "panicked"

\* the tasks that work on job j
TasksOf(j) == {t \in TaskIds : tasks[t].job = j}

\* C24: once an upload task has stopped after its job entered Processing,
\* the job record stays Processing: no step lists the job again, starts a
\* task for it, marks it Failed or Complete, or takes a broadcast
\* transaction off the chain.
C24_StoppedStaysProcessing ==
    [][\A t \in TaskIds :
          Stopped(t) =>
             LET j == tasks[t].job
             IN  /\ jobs[j].status = "processing"
                 /\ jobs'[j].status = "processing"
                 /\ j \notin PendingJobs'
                 /\ {u \in 1..Len(tasks') : tasks'[u].job = j} = TasksOf(j)
                 /\ tasks'[t] = tasks[t]
                 /\ chain \subseteq chain']_vars

\* an upload task stopped after it had broadcast a transaction
StoppedAfterBroadcast ==
    \E t \in TaskIds :
       /\ Stopped(t)
       /\ tasks[t].log # <<>>
       /\ jobs[tasks[t].job].status = "processing"

\* the codec run decoded, with `decoder`, the uncut encoding of an input of
\* kind `op` (as a script, or inside a transaction)
Decoded(op, decoder) ==
    /\ codec.pc = "decoded"
    /\ codec.input.op = op
    /\ codec.decoder = decoder
    /\ ~codec.cut

\* the decoded manifest has the file name, the chunk txids in their order
\* and every non-empty optional field of the input
SameManifestFields(m, i) ==
    /\ m.filename = i.filename
    /\ m.chunk_txids = i.parts
    /\ m.title = NonEmpty(i.title)
    /\ m.artist = NonEmpty(i.artist)
    /\ m.lyrics = NonEmpty(i.lyrics)
    /\ m.cover_txid = NonEmpty(i.cover_txid)

\* C25: decoding the script the manifest encoder wrote returns the file
\* name, the size, the chunk txids in the same order and every non-empty
\* optional field that was given to the encoder.
C25_ManifestRoundTrip ==
    (Decoded("manifest", "manifest") \/ Decoded("manifest", "tx_manifest")) =>
       /\ codec.out.tag = "some"
       /\ SameManifestFields(codec.out.val, codec.input)
       /\ "size" \in DOMAIN codec.out.val
       /\ codec.out.val.size = codec.input.size

\* the same without the size: what the decoder returns of a manifest is
\* what was encoded
ManifestRoundTripButSize ==
    (Decoded("manifest", "manifest") \/ Decoded("manifest", "tx_manifest")) =>
       /\ codec.out.tag = "some"
       /\ SameManifestFields(codec.out.val, codec.input)
       /\ DOMAIN codec.out.val =
             {"filename", "chunk_txids", "title", "artist", "lyrics", "cover_txid"}

\* a manifest with two chunks, a title and a cover was decoded
ManifestDecoded ==
    /\ Decoded("manifest", "manifest")
    /\ codec.out.tag = "some"
    /\ Len(codec.input.parts) = 2
    /\ IsSome(codec.out.val.title)
    /\ IsSome(codec.out.val.cover_txid)

\* the bytes the writer puts in front of a payload of len bytes
PushHeader(len) ==
    IF len <= 75 THEN <<len>>
    ELSE IF len <= 255 THEN <<76, len>>
    ELSE IF len <= 65535 THEN <<77, len % 256, len \div 256>>
    ELSE <<78, len % 256, (len \div 256) % 256, (len \div 65536) % 256, len \div 16777216>>

\* C26: for every payload length, at both sides of each threshold (0, 1, 75,
\* 76, 255, 256, 65535, 65536), the writer uses the direct form up to 75
\* bytes, 0x4c up to 255, 0x4d up to 65535 and 0x4e above, and either reader
\* returns the payload and consumes exactly the encoded length.
C26_PushRoundTrip ==
    (codec.pc \in {"encoded", "decoded"} /\ codec.input.op = "push" /\ ~codec.cut) =>
       LET len == codec.input.size
           header == PushHeader(len)
       IN  /\ Len(codec.bytes) = Len(header) + len
           /\ SubSeq(codec.bytes, 1, Len(header)) = header
           /\ codec.pc = "decoded" =>
                 /\ codec.out.tag = "some"
                 /\ codec.out.val[1] = SubSeq(codec.bytes, Len(header) + 1, Len(codec.bytes))
                 /\ \A k \in 1..len : codec.out.val[1][k] = Payload(len)[k]
                 /\ Len(codec.out.val[1]) = len
                 /\ codec.out.val[2] = Len(codec.bytes)

\* a payload of 65536 bytes went through the four-byte form and back
C26_Witness ==
    /\ Decoded("push", "read_push_data")
    /\ codec.input.size = 65536
    /\ codec.bytes[1] = 78
    /\ codec.out.tag = "some"

\* the other reader read a payload of 256 bytes in the two-byte form
BsvReaderRead ==
    /\ Decoded("push", "bsv_read_push_data")
    /\ codec.input.size = 256
    /\ codec.bytes[1] = 77
    /\ codec.out.tag = "some"

RECURSIVE PushBoundaries(_, _)
\* the offsets of a script at which a push starts or the pushes end
PushBoundaries(script, i) ==
    IF i >= Len(script) \/ script[i + 1] = 104 \/ read_push_data(script, i) = None
    THEN {i}
    ELSE {i} \cup PushBoundaries(script, i + Get(read_push_data(script, i))[2])

\* the bytes that were decoded are malformed: a script no encoder writes
\* (empty, an unknown or incomplete leading opcode), a single push that was
\* cut, a script cut inside one of its pushes, or a transaction cut before
\* the end of its output
Malformed ==
    \/ codec.input.op = "raw"
    \/ /\ codec.cut
       /\ \/ codec.form = "push"
          \/ /\ codec.form = "script"
             /\ Len(codec.bytes) \notin PushBoundaries(EncodeInput(codec.input), 2)
          \/ /\ codec.form = "tx"
             /\ Len(codec.bytes) < 2 * (Len(Serialize(Tx(<<Input(99, 0, 600)>>,
                                         <<Output(EncodeInput(codec.input), 1)>>))) - 4)

\* C27: no decode operation (manifest, chunk, single container, cover,
\* OP_RETURN over a script, the push readers, the extraction over a raw
\* transaction) panics, and each returns None on a length violation, a
\* truncated push, a truncated transaction or an unknown leading opcode.
C27_DecodersReturnNone ==
    codec.pc = "decoded" =>
       /\ codec.out.tag # "panic"
       /\ Malformed => codec.out.tag = "none"

\* the parts of it: no decoder panics; the script decoders other than the
\* cover decoder, and the push readers, return None on malformed bytes; the
\* cover decoder does; the extraction does when it does not panic
DecodersNeverPanic == codec.pc = "decoded" => codec.out.tag # "panic"

StrictDecodersReturnNone ==
    (codec.pc = "decoded" /\ Malformed
       /\ codec.decoder \in (ScriptDecoders \ {"cover"}) \cup PushDecoders)
    => codec.out.tag = "none"

CoverDecoderReturnsNone ==
    (codec.pc = "decoded" /\ Malformed /\ codec.decoder = "cover") => codec.out.tag = "none"

ExtractionReturnsNoneOrPanics ==
    (codec.pc = "decoded" /\ Malformed /\ codec.decoder \in TxDecoders)
    => codec.out.tag # "some"

OpReturnExtractionNeverPanics ==
    (codec.pc = "decoded" /\ codec.decoder = "tx_op_return") => codec.out.tag # "panic"

\* a manifest cut inside a push was rejected by the manifest decoder
MalformedRejected ==
    /\ codec.pc = "decoded" /\ Malformed /\ codec.cut
    /\ codec.input.op = "manifest" /\ codec.decoder = "manifest"
    /\ Len(codec.bytes) > 40
    /\ codec.out.tag = "none"

\* the tag each script decoder is specified to expect as the first push
ExpectedTag(decoder) ==
    CASE decoder = "manifest" -> ProtoManifest
      [] decoder = "chunk" -> ProtoChunk
      [] decoder = "store" -> ProtoStore
      [] decoder = "cover" -> ProtoCover
      [] OTHER -> ProtoUpfile

\* a script decoder has read a script whose first push is another tag
ForeignTag ==
    /\ codec.pc = "decoded"
    /\ codec.decoder \in ScriptDecoders
    /\ read_push_data(codec.bytes, 2) # None
    /\ Get(read_push_data(codec.bytes, 2))[1] # ExpectedTag(codec.decoder)

\* C28: a script whose first push is not the tag the decoder expects
\* (flacstore-manifest, flacstore-chunk, flacstore, coverart, upfile for the
\* legacy OP_RETURN form) decodes to None in that decoder.
C28_ForeignTagIsNone == ForeignTag => codec.out.tag = "none"

\* the same for the decoders of the OP_FALSE OP_IF containers alone
ContainerDecodersCheckTag ==
    (ForeignTag /\ codec.decoder # "op_return") => codec.out.tag = "none"

\* a whole chunk script was refused by the single-container decoder, and a
\* script under the expected tag was accepted by the legacy decoder
ForeignContainerRefused ==
    /\ ForeignTag /\ ~codec.cut
    /\ codec.input.op = "chunk" /\ codec.decoder = "store"
    /\ codec.out.tag = "none"

LegacyTagAccepted ==
    /\ Decoded("op_return", "op_return")
    /\ codec.input.parts[1] = ProtoUpfile
    /\ codec.out.tag = "some"

\* ceil(a / b) and ceil(fee_rate * size)
CeilOf(a, b) == (a + b - 1) \div b
CeilFee(size) == CeilOf(size * FeeRateNum, FeeRateDen)

\* the amount the quote of a multi-chunk upload is specified to be, for a
\* payload of P bytes in chunks of M bytes
SpecifiedQuote(P, M, with_cover) ==
    LET chunks_needed == CeilOf(P, M)
        per_output_funding == CeilFee(200 + M) + 10
        split_outputs == chunks_needed + 1 + (IF with_cover THEN 1 ELSE 0)
        split_fee == CeilFee(10 + 148 + 34 * split_outputs)
    IN  CeilOf(12 * (per_output_funding * split_outputs + split_fee), 10)

\* the upload jobs quoted as multi-chunk uploads
MultiChunkJobs == {j \in UploadJobs : NeedsChunking(jobs[j])}

\* C29: the amount quoted for a multi-chunk upload is ceil(1.2 *
\* (per_output_funding * split_outputs + split_fee)) with chunks_needed =
\* ceil(P / M), per_output_funding = ceil(fee_rate * (200 + M)) + 10,
\* split_outputs = chunks_needed + 1, plus 1 when a cover is present, and
\* split_fee = ceil(fee_rate * (10 + 148 + 34 * split_outputs)).
C29_MultiChunkQuote ==
    \A j \in MultiChunkJobs :
       RequiredSatoshis(jobs[j]) =
          SpecifiedQuote(Len(Get(jobs[j].file_data)), max_tx_data_size,
                         IsSome(jobs[j].cover_data))

\* the same for the uploads without a cover, and the quote of an upload
\* with a cover is the quote of the same payload without one
QuoteWithoutCover ==
    \A j \in MultiChunkJobs :
       RequiredSatoshis(jobs[j]) =
          SpecifiedQuote(Len(Get(jobs[j].file_data)), max_tx_data_size, FALSE)

\* a multi-chunk upload without a cover was quoted
PlainMultiChunkQuoted ==
    \E j \in MultiChunkJobs :
       /\ ~IsSome(jobs[j].cover_data)
       /\ Len(Get(jobs[j].file_data)) = MaxFileSize

\* process_job was started in task t: a download task, or a check task
\* that found the payment and went past update_job_status
ProcessingStarted(t) ==
    /\ tasks[t].pc \notin {"check", "set_processing"}
    /\ \/ tasks[t].job_type = "flac_download"
       \/ tasks[t].pc = "u_begin"
       \/ tasks[t].progress_log # <<>>

\* C30: for each job at most one processing task is ever started, and the
\* transactions of a job are broadcast by one task only, whatever the
\* number of watcher iterations that pass while its payment is checked.
C30_OneProcessingTask ==
    \A j \in DOMAIN jobs :
       /\ Cardinality({t \in TasksOf(j) : ProcessingStarted(t)}) <= 1
       /\ Cardinality({t \in TasksOf(j) : tasks[t].log # <<>>}) <= 1

\* two tasks of one job have both had a transaction accepted
TwoTasksBroadcast ==
    \E j \in DOMAIN jobs :
       \E t, u \in TasksOf(j) :
          /\ t # u
          /\ \E k \in 1..Len(tasks[t].log) : tasks[t].log[k].ok
          /\ \E k \in 1..Len(tasks[u].log) : tasks[u].log[k].ok

\* the upload of task t has entered the orchestrator and the task has
\* come to its end, by returning or by aborting
UploadEnded(t) ==
    /\ t \in UploadTasks
    /\ tasks[t].progress_log # <<>>
    /\ tasks[t].pc \in {"done", "panicked"}

\* C31: an upload that entered Processing ends Complete or Failed: whatever
\* the outcomes of cover, split, chunks and manifest and whatever the
\* funding, the task never comes to its end (for example by indexing an
\* empty UTXO list) while the job is still Processing.
C31_UploadTerminates ==
    \A t \in TaskIds :
       UploadEnded(t) => jobs[tasks[t].job].status \in {"complete", "error"}

\* no upload task has aborted
NoUploadAborts == \A t \in UploadTasks : tasks[t].pc # "panicked"

\* an upload without a cover never aborts, whatever its funding
PlainUploadNeverAborts ==
    \A t \in UploadTasks :
       jobs[tasks[t].job].cover_data = None => tasks[t].pc # "panicked"

\* the split transaction of task t spends the first UTXO of the task's
\* list, takes that UTXO's value as its input value, and pays out no more
SplitWithinInput(t) ==
    LET tx == SplitTxOf(t)
        spent == tasks[t].utxos[1]
    IN  /\ Len(tx.inputs) = 1
        /\ tx.inputs[1].txid = spent.txid
        /\ tx.inputs[1].vout = spent.vout
        /\ tx.inputs[1].satoshis = spent.satoshis
        /\ SumSeq([k \in 1..Len(tx.outputs) |-> tx.outputs[k].satoshis]) <= spent.satoshis

\* C32: the split transaction spends exactly one UTXO, the input value of
\* its funds test, change and signature is the value of that UTXO, and the
\* split outputs plus change never exceed it, for any number of funding
\* UTXOs.
C32_SplitSpendsOneUtxo ==
    \A t \in UploadTasks : SplitBuilt(t) => SplitWithinInput(t)

\* the same for the uploads whose list holds one UTXO at the split
SplitOfSingleUtxo ==
    \A t \in UploadTasks :
       (SplitBuilt(t) /\ Len(tasks[t].utxos) = 1) => SplitWithinInput(t)

\* a split was built over a single UTXO
SingleUtxoSplitBuilt ==
    \E t \in UploadTasks : SplitBuilt(t) /\ Len(tasks[t].utxos) = 1

\* the attempts of the chunk broadcasts that task t has made
ChunkAttemptsOf(t) == {tasks[t].log[k] : k \in EntriesOf(t, "chunk")}

\* C33: when a chunk broadcast fails, the waits before the second, third,
\* fourth and fifth attempt are 1 s, 2 s, 4 s and 8 s, and there is no wait
\* before the first attempt.
C33_BackoffDelays ==
    \A t \in UploadTasks :
       \A a \in ChunkAttemptsOf(t) :
          a.wait = IF a.retry = 0 THEN 0 ELSE 2 ^ (a.retry - 1)

\* no wait before a first attempt, and at most five attempts for a chunk
FirstAttemptUnwaited ==
    \A t \in UploadTasks :
       \A a \in ChunkAttemptsOf(t) :
          /\ a.retry \in 0..4
          /\ a.retry = 0 => a.wait = 0

\* the waits that the retries of the loop make
RetryWaitsDoubleFromTwo ==
    \A t \in UploadTasks :
       \A a \in ChunkAttemptsOf(t) : a.retry > 0 => a.wait = 2 ^ a.retry

\* a chunk was broadcast a fifth time
FifthAttemptMade ==
    \E t \in UploadTasks : \E a \in ChunkAttemptsOf(t) : a.retry = 4

\* the row of a Complete job carries full progress and its manifest txid
CompleteRow(j) == jobs[j].progress = Pct(100) /\ IsSome(jobs[j].manifest_txid)

\* C34: in every reachable state a Complete job has progress 100 and its
\* manifest txid set; no progress or status update of any task leaves a
\* Complete job with a progress below 100.
C34_CompleteIsFull ==
    \A j \in DOMAIN jobs : jobs[j].status = "complete" => CompleteRow(j)

\* the write that completes a job leaves a full row
CompletionWritesFullRow ==
    [][\A j \in DOMAIN jobs :
          (jobs[j].status # "complete" /\ jobs'[j].status = "complete")
             => (jobs'[j].progress = Pct(100) /\ IsSome(jobs'[j].manifest_txid))]_vars

\* a job is Complete
SomeJobComplete == \E j \in DOMAIN jobs : jobs[j].status = "complete"

\* the UTXOs of the largest value in a list
Largest(utxos) ==
    {k \in 1..Len(utxos) : \A m \in 1..Len(utxos) : utxos[m].satoshis <= utxos[k].satoshis}

\* the split transaction of task t spends the k-th UTXO of the task's list
SplitSpends(t, k) ==
    /\ SplitTxOf(t).inputs[1].txid = tasks[t].utxos[k].txid
    /\ SplitTxOf(t).inputs[1].vout = tasks[t].utxos[k].vout

\* C35: after the optional cover step, the split transaction consumes the
\* funding UTXO of the largest value among those that remain.
C35_SplitSpendsLargest ==
    \A t \in UploadTasks :
       SplitBuilt(t) => \E k \in Largest(tasks[t].utxos) : SplitSpends(t, k)

\* the split transaction consumes the first UTXO of the list
SplitSpendsFirst ==
    \A t \in UploadTasks : SplitBuilt(t) => SplitSpends(t, 1)

\* a split was built over a list whose first UTXO is not its largest
SplitOverSmallFirst ==
    \E t \in UploadTasks : SplitBuilt(t) /\ 1 \notin Largest(tasks[t].utxos)

\* download task d completed its job and saved what it reconstructed
DownloadComplete(d) ==
    /\ d \in DownloadTasks
    /\ IsSome(tasks[d].saved)
    /\ jobs[tasks[d].job].status = "complete"

\* the file behind the download link of d's job holds the bytes d saved
LinkHoldsSaved(d) ==
    LET name == Get(tasks[d].saved)[2]
    IN  /\ jobs[tasks[d].job].download_link = Some(DownloadLink(name))
        /\ name \in DOMAIN files
        /\ files[name] = Get(tasks[d].saved)[1]

\* C36: download jobs side by side never affect each other's result: when a
\* download job is Complete, the file behind its download link holds exactly
\* the bytes that job reconstructed, also when another job's manifest
\* declares the same file name.
C36_DownloadsIsolated ==
    \A d \in TaskIds : DownloadComplete(d) => LinkHoldsSaved(d)

\* the same while one download alone has saved a file
LoneDownloadKeepsFile ==
    \A d \in TaskIds :
       (DownloadComplete(d) /\ \A e \in DownloadTasks \ {d} : tasks[e].saved = None)
          => LinkHoldsSaved(d)

\* two downloads completed, of files of unlike bytes
TwoDownloadsComplete ==
    \E d, e \in TaskIds :
       /\ DownloadComplete(d) /\ DownloadComplete(e)
       /\ Get(tasks[d].saved)[1] # Get(tasks[e].saved)[1]

\* job j awaits its payment, the gateway reports an unspent output for its
\* address, and the iterations that remain outlast the failures that remain
PaidAndWatched(j) ==
    /\ j \in DOMAIN jobs
    /\ jobs[j].status = "pending_payment"
    /\ unspent[j] # <<>>
    /\ Len(tasks) + faults < env.tasks

\* job j was moved to Processing and process_job starts in one of its tasks
ProcessingBegins(j) ==
    /\ j \in DOMAIN jobs
    /\ jobs[j].status = "processing"
    /\ \E t \in TaskIds : tasks[t].job = j /\ tasks[t].pc = "u_begin"

ScriptLengthsAgree ==
    \A t \in UploadTasks :
       /\ tasks[t].pc = "u_chunk_bc" =>
             Len(tasks[t].tx.outputs[1].script)
                = chunk_script_len(tasks[t].i,
                     Len(FileChunks(Get(jobs[tasks[t].job].file_data))[tasks[t].i + 1]))
       /\ tasks[t].pc = "u_manifest_bc" =>
             LET job == jobs[tasks[t].job]
                 n == Len(tasks[t].chunk_txids)
                 cover == IF IsSome(tasks[t].cover_txid)
                          THEN Some(TxidText(Get(tasks[t].cover_txid))) ELSE None
             IN  Len(tasks[t].tx.outputs[1].script)
                    = manifest_script_len(Len(Get(job.filename)),
                         Len(ManifestMetadataJson(Len(Get(job.file_data)), n,
                                job.track_title, job.artist_name, job.lyrics, cover)),
                         n, 2 * TxidBytes)

\* the input of the planned transaction covers its output and the fee of
\* its size
Covered == plan.input_satoshis >= plan.output_satoshis + Fee(200 + plan.script_len)

\* C38: for every chunk transaction and for the manifest transaction, the
\* value of its dedicated split output is at least the 1 satoshi of its data
\* output plus the fee ceil(fee_rate * (200 + script length)) of that
\* transaction.
C38_OutputCoversFee == plan.pc = "planned" => Covered

\* every chunk transaction is covered
ChunksCovered ==
    (plan.pc = "planned" /\ plan.input.kind = "chunk") => Covered

\* a manifest of a short file name and short lyrics is covered
ShortManifestCovered ==
    (plan.pc = "planned" /\ plan.input.kind = "manifest"
       /\ plan.input.filename <= 255 /\ plan.input.lyrics <= 4000) => Covered

\* a full chunk and a short manifest were planned
FullChunkPlanned ==
    /\ plan.pc = "planned"
    /\ plan.input.kind = "chunk"
    /\ plan.input.size = MaxTxDataBytes
ShortManifestPlanned ==
    /\ plan.pc = "planned"
    /\ plan.input.kind = "manifest"
    /\ plan.input.filename <= 255 /\ plan.input.lyrics <= 4000

\* task t is in a gateway call, a sleep or a signing
Outside(t) == OpOf(t) \in {"gateway", "sleep", "sign"} /\ store.inside[t]

\* task t waits for the mutex
WaitsForStore(t) == OpOf(t) = "store" /\ ~store.inside[t] /\ store.holder # 0

\* C39: the connection mutex is taken and given back inside each single
\* store operation: its holder is inside a store operation, no task holds it
\* during a gateway call, a sleep or a signing, so a task that waits for it
\* waits for a store operation only; and the tasks cannot deadlock on it:
\* while a task has operations left, some task can take a step.
C39_LockInsideStoreOp ==
    /\ \A t \in StoreTaskIds :
          /\ store.holder = t <=> (OpOf(t) = "store" /\ store.inside[t])
          /\ Outside(t) => store.holder # t
          /\ WaitsForStore(t) =>
                (OpOf(store.holder) = "store" /\ store.inside[store.holder])
    /\ (\E t \in StoreTaskIds : OpOf(t) # "end") => ENABLED NextStore

\* one task is inside a store operation while another is in a gateway call
\* and a third waits for the mutex
C39_Witness ==
    \E t, u, w \in StoreTaskIds :
       /\ store.holder = t
       /\ Outside(u) /\ OpOf(u) = "gateway"
       /\ WaitsForStore(w)

====
